---- MODULE Spec2Model ----
(***************************************************************************)
(* Dev-server control plane of the bun-monorepo: port allocation with      *)
(* collision avoidance, the control-socket protocol (restart, stop, info), *)
(* peer discovery over the control directory and the supervisor that ties  *)
(* them together.                                                          *)
(*                                                                         *)
(* Three copies of the supervisor exist in the repository and differ in    *)
(* the eviction command and in what `stop` does:                           *)
(*   "part_001"  src/unnamed/part_001 (serve-with-control, shutdown())     *)
(*   "template"  src/packages/new/templates/web/src/dev/serve-with-control *)
(*   "web"       src/apps/web/src/index.ts (second half, lines 221-511)    *)
(* The variable `variant` says which copy the processes of a run execute.  *)
(*                                                                         *)
(* Every process is a single event loop: an action is one callback turn,   *)
(* i.e. the code between two awaits.                                       *)
(***************************************************************************)
EXTENDS Integers, FiniteSets, Sequences, TLC

\* Highest port number of the model (MAX_PORT = 65535 in the source, scaled).
MaxPort == 3
\* Restart requests (key `r` or `restart` on a control socket) per run.
MaxRestarts == 2
\* Binds and releases of ports by processes outside the control plane.
MaxExtMoves == 1
\* The port resolveBasePort returns for every process of the run.
BasePort == 1

Variants == {"part_001", "template", "web"}
Procs == {"A", "B"}
Idents == {"app", "docs"}
Ports == 1..MaxPort
TaskIds == 1..MaxRestarts

\* A directory entry of the control directory.
SockFile(stem) == [stem |-> stem, ext |-> ".sock"]
NotesFile == [stem |-> "notes", ext |-> ".txt"]
JunkStem == "junk"
Stems == Idents \cup {JunkStem}

NoPeer == [id |-> "", socket |-> ""]
EmptyMap == [q \in Ports |-> NoPeer]

VARIABLES
  variant,    \* which copy of the supervisor the processes run
  ident,      \* ident[p]: serverId of process p (resolveServerInfo)
  pc,         \* pc[p]: where process p is in serveWithControl
  server,     \* server[p]: the `server` variable: [port, live]
  bound,      \* bound[q]: who has port q bound: "free", "ext" or a process
  cold,       \* cold[p]: the cold start of p: discovery, candidate port, ack
  tasks,      \* tasks[p][t]: the restartServer calls of p that are in flight
  dirExists,  \* the control directory exists
  sock,       \* sock[s]: what is at <s>.sock: "none", "stale", "junk", "mute" or the
              \* process whose listener a connect reaches
  stopped,    \* stopped[p]: p has accepted `stop`, `q` or Ctrl-C
  budget,     \* what is left of MaxRestarts and MaxExtMoves
  ev          \* what the last callback turn did and wrote

\* The multi-workspace orchestrator (scripts/dev-tui.ts, main)
VARIABLES
  main,          \* where main() is: "absent", "starting", "running", "exited"
  workspaces,    \* the selected workspaces, sorted by name
  children,      \* children[n]: the generation of the handle the map holds
                 \* under name n, 0 when the map has no such key
  spawned,       \* spawned[<<g, n>>]: the child startAll number g spawned for
                 \* workspace n: "none", "alive" or "exited"
  restarting,    \* the `restarting` flag of restartAll
  controlServer, \* "null", "listening" or "closing"
  stopping,      \* the stopAll calls awaiting child.exited, oldest first
  closing,       \* the shutdown calls awaiting close() and rm()
  connections,   \* the connections to the control server that their clients
                 \* have not closed
  socketFile,    \* what is at controlSocket: "none", "stale", or the
                 \* invocation ("first", "second") whose listener is bound to it
  second,        \* a second invocation of dev-tui over the same workspaces
  urlFrom,       \* urlFrom[n]: the startAll whose child printed latestUrl[n],
                 \* 0 when there is none (no variable of the program)
  latestUrl,     \* latestUrl[n]: the map's value under name n, <<>> when the
                 \* map has no such key; text is a sequence of tokens
  did            \* what the last turn of the orchestrator did

orchestrator == <<main, workspaces, children, spawned, restarting,
                  controlServer, stopping, closing, connections, socketFile, second,
                  latestUrl, urlFrom, did>>

supervisor == <<variant, ident, pc, server, bound, cold, tasks, dirExists, sock,
                stopped, budget, ev>>

\* The functions that are checked on their own
VARIABLES
  unit           \* the call at hand: [fn, in, out], out = <<>> until it returns

\* One sendControlCommand in flight
VARIABLES
  client         \* its socket, its timer, the calls of resolve, and the events so far

\* The output of one child on its way through attachOutput
VARIABLES
  pipe           \* the buffer, the lines handed to onLine, what each stream has written

vars == <<supervisor, orchestrator, unit, client, pipe>>

NoUnit == [fn |-> "", in |-> <<>>, out |-> <<>>]
NoPipe == [buffer |-> <<>>, lines |-> <<>>, stdout |-> <<>>, stderr |-> <<>>, exited |-> FALSE, label |-> ""]
NoClient == [state |-> "none", wrote |-> FALSE, timeout |-> "none", resolved |-> <<>>, seen |-> <<>>]

MaxShutdowns == 2
MaxConnections == 1

Names == {"docs", "web"}
Gens == 1..(MaxRestarts + 1)
Kids == Gens \X Names
NoChildren == [n \in Names |-> 0]
NoUrls == [n \in Names |-> <<>>]
Idle ==
  [op |-> "", arg |-> "", flag |-> FALSE, killed |-> {}, started |-> {}, reply |-> "",
   alive |-> {}, printed |-> <<>>, launched |-> <<>>, prior |-> NoUrls]
NotInvoked == [pc |-> "absent", beside |-> "", found |-> "", wrote |-> "", opened |-> FALSE, started |-> 0]

\* No orchestrator runs next to the supervisors.
NotOrchestrating ==
  /\ main = "absent"
  /\ workspaces = <<>>
  /\ children = NoChildren
  /\ spawned = [k \in Kids |-> "none"]
  /\ restarting = FALSE
  /\ controlServer = "null"
  /\ stopping = <<>>
  /\ closing = 0
  /\ connections = 0
  /\ socketFile = "none"
  /\ second = NotInvoked
  /\ latestUrl = NoUrls
  /\ urlFrom = [n \in Names |-> 0]
  /\ did = Idle

----------------------------------------------------------------------------
\* Pure parts

\* entry.endsWith('.sock')
endsWithSock(entry) == entry.ext = ".sock"

\* readdir(controlDir): the socket files present, and a file that is no socket.
readdir == {SockFile(s) : s \in {x \in Stems : sock[x] # "none"}} \cup {NotesFile}

\* The state of a discovery scan: the queries not yet settled, the map under
\* construction and every response received in this scan.
NewScan(entries) ==
  [pending |-> {e.stem : e \in {x \in entries : endsWithSock(x)}},
   servers |-> EmptyMap,
   raw |-> {}]

DoneScan == [pending |-> {}, servers |-> EmptyMap, raw |-> {}]

\* discoverRunningServers up to the first await: existsSync, readdir, filter.
discoverRunningServers == IF ~dirExists THEN DoneScan ELSE NewScan(readdir)

\* A map callback without the test typeof info.port === 'number': every reply
\* that parses is retained.
discoverEntryAnyJson(servers, stem, resp) ==
  IF resp.kind = "json"
  THEN [servers EXCEPT ![resp.port] = [id |-> resp.id, socket |-> stem]]
  ELSE servers

\* The body of the map callback after sendControlCommand has settled.
discoverEntry(servers, stem, resp) ==
  IF resp.kind = "false" THEN servers
  ELSE IF resp.kind = "garbage" THEN servers
  ELSE IF resp.numeric
       THEN [servers EXCEPT ![resp.port] = [id |-> resp.id, socket |-> stem]]
       ELSE servers

\* What sendControlCommand resolves with: false after an 'error' event, false
\* after its timer has destroyed the socket, or the text of the first 'data'.
NoReply == [kind |-> "false", via |-> "error", id |-> "", numeric |-> FALSE, port |-> BasePort]
Expired == [kind |-> "false", via |-> "timer", id |-> "", numeric |-> FALSE, port |-> BasePort]
Garbage == [kind |-> "garbage", via |-> "data", id |-> "", numeric |-> FALSE, port |-> BasePort]
NoPortJson == [kind |-> "json", via |-> "data", id |-> JunkStem, numeric |-> FALSE, port |-> BasePort]
\* The promise of a query that no event settles.
Pending == [kind |-> "pending", via |-> "", id |-> "", numeric |-> FALSE, port |-> BasePort]

\* The `info` branch of the control server's data handler.
infoReply(p) ==
  [kind |-> "json", via |-> "data", id |-> ident[p], numeric |-> TRUE, port |-> server[p].port]

\* A process whose control listener accepts connections.
Accepting(p) == pc[p] = "up"

\* What the other end of <stem>.sock does with a connection that sends `info`.
\* The data handler of a listening peer answers in the turn the bytes arrive,
\* well inside the 1000 ms of the timer: a listening peer is taken to answer.
\* A socket file nobody listens on refuses; a listener that is no supervisor
\* answers something else or resets ("junk"), or accepts and stays silent
\* ("mute").
Behaviours(stem) ==
  IF sock[stem] \in Procs
  THEN IF Accepting(sock[stem]) THEN {"info"} ELSE {"refused"}
  ELSE IF sock[stem] = "junk" THEN {"garbage", "noport", "refused"}
  ELSE IF sock[stem] = "mute" THEN {"silent"}
  ELSE {"refused"}

\* A sendControlCommand without the setTimeout: nothing settles the promise
\* when the other end stays silent.
sendControlCommandNoTimer(stem, behaviour) ==
  CASE behaviour = "info" -> infoReply(sock[stem])
    [] behaviour = "garbage" -> Garbage
    [] behaviour = "noport" -> NoPortJson
    [] behaviour = "refused" -> NoReply
    [] OTHER -> Pending

\* sendControlCommand(<stem>.sock, 'info'): what the promise settles with, given
\* what the other end does.
sendControlCommand(stem, behaviour) ==
  CASE behaviour = "info" -> infoReply(sock[stem])
    [] behaviour = "garbage" -> Garbage
    [] behaviour = "noport" -> NoPortJson
    [] behaviour = "refused" -> NoReply
    [] OTHER -> Expired

\* What sendControlCommand(<stem>.sock, 'info') can settle with.
Responses(stem) ==
  {sendControlCommand(stem, b) : b \in Behaviours(stem)} \ {Pending}

\* isAddressInUse(error) for the error serve() throws on a port.
Occupied(q) == bound[q] # "free"

\* A bind loop that passes over a port the map lists for another identity
\* without trying to bind it.
RECURSIVE startServerSkippingListed(_, _, _, _, _, _)
startServerSkippingListed(port, currentId, runningServers, allowRestartExisting, resumed, faultAt) ==
  IF port > MaxPort THEN [kind |-> "exhausted", port |-> port]
  ELSE LET known == runningServers[port] IN
       IF ~resumed /\ known # NoPeer /\ allowRestartExisting /\ known.id = currentId
       THEN [kind |-> "ask", port |-> port]
       ELSE IF known # NoPeer /\ known.id # currentId
            THEN startServerSkippingListed(port + 1, currentId, runningServers,
                                           allowRestartExisting, FALSE, faultAt)
       ELSE IF port = faultAt THEN [kind |-> "error", port |-> port]
       ELSE IF Occupied(port)
            THEN startServerSkippingListed(port + 1, currentId, runningServers,
                                           allowRestartExisting, FALSE, faultAt)
            ELSE [kind |-> "bind", port |-> port]

\* The while loop of startServerWithAwareness from `port` on, one callback turn:
\* it ends by binding, by suspending on sendControlCommand to a peer of the same
\* identity, by a bind error that is not EADDRINUSE, or by running out of ports.
RECURSIVE startServerWithAwareness(_, _, _, _, _, _)
startServerWithAwareness(port, currentId, runningServers, allowRestartExisting, resumed, faultAt) ==
  IF port > MaxPort THEN [kind |-> "exhausted", port |-> port]
  ELSE LET known == runningServers[port] IN
       IF ~resumed /\ known # NoPeer /\ allowRestartExisting /\ known.id = currentId
       THEN [kind |-> "ask", port |-> port]
       ELSE IF port = faultAt THEN [kind |-> "error", port |-> port]
       ELSE IF Occupied(port)
            THEN startServerWithAwareness(port + 1, currentId, runningServers,
                                          allowRestartExisting, FALSE, faultAt)
            ELSE [kind |-> "bind", port |-> port]

\* A loop that tries one more port after an error that is not EADDRINUSE.
RECURSIVE startServerOneMore(_, _, _)
startServerOneMore(port, tried, faultAt) ==
  IF port > MaxPort THEN [kind |-> "exhausted", port |-> port, tried |-> tried]
  ELSE IF port = faultAt
       THEN [kind |-> "error", port |-> port,
             tried |-> IF port < MaxPort THEN tried \o <<port, port + 1>> ELSE Append(tried, port)]
  ELSE IF Occupied(port) THEN startServerOneMore(port + 1, Append(tried, port), faultAt)
  ELSE [kind |-> "bind", port |-> port, tried |-> Append(tried, port)]

\* A loop whose condition lets one port above the maximum through.
RECURSIVE startServerPastMax(_, _, _)
startServerPastMax(port, tried, faultAt) ==
  IF port > MaxPort
  THEN [kind |-> "exhausted", port |-> port + 1, tried |-> Append(tried, port)]
  ELSE IF port = faultAt THEN [kind |-> "error", port |-> port, tried |-> Append(tried, port)]
  ELSE IF Occupied(port) THEN startServerPastMax(port + 1, Append(tried, port), faultAt)
  ELSE [kind |-> "bind", port |-> port, tried |-> Append(tried, port)]

\* A loop that steps by two after a port in use.
RECURSIVE startServerByTwo(_, _, _)
startServerByTwo(port, tried, faultAt) ==
  IF port > MaxPort THEN [kind |-> "exhausted", port |-> port, tried |-> tried]
  ELSE IF port = faultAt THEN [kind |-> "error", port |-> port, tried |-> Append(tried, port)]
  ELSE IF Occupied(port) THEN startServerByTwo(port + 2, Append(tried, port), faultAt)
  ELSE [kind |-> "bind", port |-> port, tried |-> Append(tried, port)]

\* The while loop of the template's startServer from `port` on; `tried` are the
\* ports serve() has been called with so far, in order.
RECURSIVE startServer(_, _, _)
startServer(port, tried, faultAt) ==
  IF port > MaxPort THEN [kind |-> "exhausted", port |-> port, tried |-> tried]
  ELSE IF port = faultAt THEN [kind |-> "error", port |-> port, tried |-> Append(tried, port)]
  ELSE IF Occupied(port) THEN startServer(port + 1, Append(tried, port), faultAt)
  ELSE [kind |-> "bind", port |-> port, tried |-> Append(tried, port)]

\* The ports on which a bind may fail with an error other than EADDRINUSE
\* (0: on none).
Faults == {0} \cup Ports

\* What serve() may throw: a value that is no object, or an object with a
\* code and a message that does or does not hold the text EADDRINUSE.
Errors ==
  [object : BOOLEAN, code : {"", "EADDRINUSE", "EACCES"}, mentions : BOOLEAN]

isAddressInUse(error) ==
  IF ~error.object THEN FALSE
  ELSE IF error.code = "EADDRINUSE" THEN TRUE
  ELSE error.mentions

\* The errors of a port in Faults.
Fatal == {error \in Errors : ~isAddressInUse(error)}

----------------------------------------------------------------------------
\* State changes shared by the handlers

\* What a callback turn did: the handler, its process, the statements with an
\* effect outside the process in the order the code runs them, the port it is
\* about and, for a bind loop: its start port, who held the start port when the
\* loop began, and the scan whose map it was given.
Event(op, p, steps, port, from, held, scan) ==
  [op |-> op, p |-> p, steps |-> steps, port |-> port, from |-> from, held |-> held, scan |-> scan]

Quiet == Event("none", "", <<>>, 0, 0, "", DoneScan)

IdleTask == [st |-> "idle", src |-> "", pref |-> BasePort, scan |-> DoneScan]
NoCold == [scan |-> DoneScan, port |-> BasePort, target |-> ""]

\* One settled query of a scan.
ScanStep(scan, stem, resp) ==
  [pending |-> scan.pending \ {stem},
   servers |-> discoverEntry(scan.servers, stem, resp),
   raw |-> scan.raw \cup {[stem |-> stem, resp |-> resp]}]

\* server.stop(true) on the handle the `server` variable holds.
stopServer(p, b) ==
  IF server[p].live THEN [b EXCEPT ![server[p].port] = "free"] ELSE b

\* The process is gone: the OS closes its listeners, its socket file stays.
ExitBound(p, b) == [q \in Ports |-> IF b[q] = p THEN "free" ELSE b[q]]
ExitSock(p, s) == [x \in Stems |-> IF s[x] = p THEN "stale" ELSE s[x]]

\* The command a cold start sends to a peer of its own identity.
EvictCommand == IF variant = "part_001" THEN "stop" ELSE "restart"

\* Client c has sent `cmd` to the control socket on which q listens: an
\* operator (printf cmd | nc -U socket) or a cold start awaiting its ack.
Sends(c, q, cmd) ==
  /\ Accepting(q)
  /\ \/ c = "operator" /\ \E s \in Stems : sock[s] = q
     \/ /\ c \in Procs /\ c # q
        /\ pc[c] = "awaitAck"
        /\ sock[cold[c].target] = q
        /\ cmd = EvictCommand

\* sendControlCommand of client c settles.
AckPc(f, c) == IF c \in Procs THEN [f EXCEPT ![c] = "acked"] ELSE f

----------------------------------------------------------------------------
\* The supervisor: serveWithControl and its handlers

\* Before the first process starts: the base port is free or taken by a process
\* outside the control plane, and the control directory is absent (a first run)
\* or holds the socket file a killed "app" process left behind.
Init ==
  /\ variant \in Variants
  /\ ident \in {f \in [Procs -> Idents] : f["A"] = "app"}
  /\ pc = [p \in Procs |-> "init"]
  /\ server = [p \in Procs |-> [port |-> BasePort, live |-> FALSE]]
  /\ bound \in {f \in [Ports -> {"free", "ext"}] : \A q \in Ports : q # BasePort => f[q] = "free"}
  /\ cold = [p \in Procs |-> NoCold]
  /\ tasks = [p \in Procs |-> [t \in TaskIds |-> IdleTask]]
  /\ dirExists \in BOOLEAN
  /\ sock = [x \in Stems |-> IF dirExists /\ x = "app" THEN "stale" ELSE "none"]
  /\ stopped = [p \in Procs |-> FALSE]
  /\ budget = [restarts |-> MaxRestarts, ext |-> MaxExtMoves]
  /\ ev = Quiet
  /\ NotOrchestrating
  /\ unit = NoUnit
  /\ client = NoClient
  /\ pipe = NoPipe



\* serveWithControl up to the first await of discoverRunningServers.
ColdDiscover(p) ==
  /\ pc[p] = "init"
  /\ p = "B" => pc["A"] \in {"up", "closing", "exited"}
  /\ pc' = [pc EXCEPT ![p] = "discovering"]
  /\ cold' = [cold EXCEPT ![p] = [NoCold EXCEPT !.scan = discoverRunningServers]]
  /\ ev' = Quiet
  /\ UNCHANGED <<pipe, client, unit, orchestrator, variant, ident, server, bound, tasks, dirExists, sock, stopped, budget>>

\* The bind loop of a cold start and what follows it, given the scan it uses:
\* startServerWithAwareness(config, basePort, ..., runningServers, true) from
\* the start, or resumed after the ack of a `stop`.
ColdLoop(p, scan, resumed) ==
  \E f \in Faults :
    LET from == IF resumed THEN cold[p].port ELSE BasePort
        map == scan.servers
        r == startServerWithAwareness(from, ident[p], map, TRUE, resumed, f)
    IN CASE r.kind = "ask" ->
              /\ pc' = [pc EXCEPT ![p] = "awaitAck"]
              /\ cold' = [cold EXCEPT ![p] = [scan |-> scan, port |-> r.port, target |-> map[r.port].socket]]
              /\ ev' = Event("ask", p, <<"send:" \o EvictCommand>>, r.port, from, bound[from], scan)
              /\ UNCHANGED <<server, bound>>
         [] r.kind = "bind" ->
              /\ pc' = [pc EXCEPT ![p] = "bound"]
              /\ server' = [server EXCEPT ![p] = [port |-> r.port, live |-> TRUE]]
              /\ bound' = [bound EXCEPT ![r.port] = p]
              /\ cold' = [cold EXCEPT ![p] = NoCold]
              /\ ev' = Event("coldBind", p, <<"bind">>, r.port, from, bound[from], scan)
         [] OTHER ->
              /\ pc' = [pc EXCEPT ![p] = "exited"]
              /\ cold' = [cold EXCEPT ![p] = NoCold]
              /\ ev' = Event("fatal", p, <<"throw:" \o r.kind>>, r.port, from, bound[from], scan)
              /\ UNCHANGED <<server, bound>>

\* One `info` query of the cold start's scan settles; with the last one
\* Promise.all resolves and serveWithControl goes on into the bind loop.
ColdReply(p) ==
  /\ pc[p] = "discovering"
  /\ \E s \in cold[p].scan.pending : \E r \in Responses(s) :
       LET scan == ScanStep(cold[p].scan, s, r)
       IN IF scan.pending = {}
          THEN ColdLoop(p, scan, FALSE)
          ELSE /\ cold' = [cold EXCEPT ![p].scan = scan]
               /\ ev' = Quiet
               /\ UNCHANGED <<pc, server, bound>>
  /\ UNCHANGED <<pipe, client, unit, orchestrator, variant, ident, tasks, dirExists, sock, stopped, budget>>

\* The bind loop of a cold start whose scan had nothing to query, or that is
\* resumed after the ack of `stop` (part_001: the other copies exit there).
ColdStart(p) ==
  /\ \/ pc[p] = "discovering" /\ cold[p].scan.pending = {}
     \/ pc[p] = "acked" /\ variant = "part_001"
  /\ ColdLoop(p, cold[p].scan, pc[p] = "acked")
  /\ UNCHANGED <<pipe, client, unit, orchestrator, variant, ident, tasks, dirExists, sock, stopped, budget>>

\* template and web: process.exit(0) after the ack of `restart`, whatever it is.
ColdExit(p) ==
  /\ pc[p] = "acked" /\ variant # "part_001"
  /\ pc' = [pc EXCEPT ![p] = "exited"]
  /\ cold' = [cold EXCEPT ![p] = NoCold]
  /\ ev' = Quiet
  /\ UNCHANGED <<pipe, client, unit, orchestrator, variant, ident, server, bound, tasks, dirExists, sock, stopped, budget>>

\* sendControlCommand's timer fires, or the connection fails: the ack is false.
AckTimeout(p) ==
  /\ pc[p] = "awaitAck"
  /\ pc' = [pc EXCEPT ![p] = "acked"]
  /\ ev' = Quiet
  /\ UNCHANGED <<pipe, client, unit, orchestrator, variant, ident, server, bound, cold, tasks, dirExists, sock, stopped, budget>>

\* An open that leaves whatever is at the socket path where it is.
keepExisting(at) == at

\* if (existsSync(controlSocket)) await rm(controlSocket, { force: true }):
\* what is at the path afterwards.
removeExisting(at) == IF at # "none" THEN "none" ELSE at

\* controlServer.listen(controlSocket) on a path at which there is `at`.
listen(at) == IF at = "none" THEN "ok" ELSE "EADDRINUSE"

\* mkdir(controlDir), rm of whatever is at the socket path, listen; then the
\* signal handlers and the key controls. The listener has no 'error' handler:
\* a failed listen ends the process. A second process of the same identity
\* starts only after the first is up, so the awaits of two opens never overlap.
OpenControl(p) ==
  /\ pc[p] = "bound"
  /\ dirExists' = TRUE
  /\ LET before == sock[ident[p]]
         result == listen(removeExisting(before))
     IN /\ ev' = Event("open", p, <<"mkdir", "listen:" \o result>>, server[p].port, 0, before, DoneScan)
        /\ IF result = "ok"
           THEN /\ pc' = [pc EXCEPT ![p] = "up"]
                /\ sock' = [sock EXCEPT ![ident[p]] = p]
                /\ UNCHANGED <<server, bound>>
           ELSE /\ pc' = [pc EXCEPT ![p] = "exited"]
                /\ bound' = ExitBound(p, bound)
                /\ server' = [server EXCEPT ![p].live = FALSE]
                /\ sock' = sock
  /\ UNCHANGED <<pipe, client, unit, orchestrator, variant, ident, cold, tasks, stopped, budget>>

\* restartServer up to its first await: the preferred port, server.stop(true),
\* the start of the scan.
BeginRestart(p, t, src) ==
  [tasks EXCEPT ![p][t] = [st |-> "disc", src |-> src, pref |-> server[p].port, scan |-> discoverRunningServers]]

FreeSlot(p) == CHOOSE t \in TaskIds : tasks[p][t].st = "idle" /\ \A u \in TaskIds : tasks[p][u].st = "idle" => t <= u

\* `restart` on the control socket: void restartServer(), then the reply.
ControlRestart(p, c) ==
  /\ Sends(c, p, "restart")
  /\ budget.restarts > 0
  /\ budget' = [budget EXCEPT !.restarts = @ - 1]
  /\ tasks' = BeginRestart(p, FreeSlot(p), "control")
  /\ bound' = stopServer(p, bound)
  /\ server' = [server EXCEPT ![p].live = FALSE]
  /\ pc' = AckPc(pc, c)
  /\ ev' = Event("restart", p, <<"stop", "write:ok:">>, server[p].port, 0, "", DoneScan)
  /\ UNCHANGED <<pipe, client, unit, orchestrator, variant, ident, cold, dirExists, sock, stopped>>

\* Key `r`.
KeyRestart(p) ==
  /\ pc[p] = "up"
  /\ budget.restarts > 0
  /\ budget' = [budget EXCEPT !.restarts = @ - 1]
  /\ tasks' = BeginRestart(p, FreeSlot(p), "key")
  /\ bound' = stopServer(p, bound)
  /\ server' = [server EXCEPT ![p].live = FALSE]
  /\ ev' = Quiet
  /\ UNCHANGED <<pipe, client, unit, orchestrator, variant, ident, pc, cold, dirExists, sock, stopped>>

\* A restart that hands `true` to the bind loop.
allowRestartExistingAsInColdStart == TRUE

\* The allowRestartExisting argument of restartServer's call.
allowRestartExistingInRestart == FALSE

\* The rest of restartServer, given the scan it uses:
\* startServerWithAwareness(config, preferredPort, ..., current, false) and the
\* assignment to `server`. Nobody awaits the promise (void restartServer()): a
\* throw is an unhandled rejection, after which the runtime either goes on or
\* ends the process.
RestartLoop(p, t, scan) ==
  \E f \in Faults, dies \in BOOLEAN :
    LET pref == tasks[p][t].pref
        r == startServerWithAwareness(pref, ident[p], scan.servers, allowRestartExistingInRestart, FALSE, f)
    IN IF r.kind = "ask"
       THEN /\ ~dies
            /\ tasks' = [tasks EXCEPT ![p][t] = IdleTask]
            /\ ev' = Event("restartAsk", p, <<tasks[p][t].src, "send:" \o EvictCommand>>, r.port, pref, bound[pref], scan)
            /\ UNCHANGED <<pc, server, bound, sock>>
       ELSE IF r.kind = "bind"
       THEN /\ ~dies
            /\ server' = [server EXCEPT ![p] = [port |-> r.port, live |-> TRUE]]
            /\ bound' = [bound EXCEPT ![r.port] = p]
            /\ tasks' = [tasks EXCEPT ![p][t] = IdleTask]
            /\ ev' = Event("restarted", p, <<tasks[p][t].src, "bind">>, r.port, pref, bound[pref], scan)
            /\ UNCHANGED <<pc, sock>>
       ELSE /\ server' = server
            /\ ev' = Event("restartFailed", p, <<tasks[p][t].src, "throw:" \o r.kind>>, r.port, pref, bound[pref], scan)
            /\ IF dies
               THEN /\ pc' = [pc EXCEPT ![p] = "exited"]
                    /\ bound' = ExitBound(p, bound)
                    /\ sock' = ExitSock(p, sock)
                    /\ tasks' = [tasks EXCEPT ![p] = [u \in TaskIds |-> IdleTask]]
               ELSE /\ tasks' = [tasks EXCEPT ![p][t] = IdleTask]
                    /\ UNCHANGED <<pc, bound, sock>>

\* One `info` query of a restart's scan settles; with the last one Promise.all
\* resolves and restartServer goes on into the bind loop.
RestartReply(p, t) ==
  /\ pc[p] # "exited"
  /\ tasks[p][t].st = "disc"
  /\ \E s \in tasks[p][t].scan.pending : \E r \in Responses(s) :
       LET scan == ScanStep(tasks[p][t].scan, s, r)
       IN IF scan.pending = {}
          THEN RestartLoop(p, t, scan)
          ELSE /\ tasks' = [tasks EXCEPT ![p][t].scan = scan]
               /\ ev' = Quiet
               /\ UNCHANGED <<pc, server, bound, sock>>
  /\ UNCHANGED <<pipe, client, unit, orchestrator, variant, ident, cold, dirExists, stopped, budget>>

\* The rest of a restart whose scan had nothing to query.
RestartFinish(p, t) ==
  /\ pc[p] # "exited"
  /\ tasks[p][t].st = "disc"
  /\ tasks[p][t].scan.pending = {}
  /\ RestartLoop(p, t, tasks[p][t].scan)
  /\ UNCHANGED <<pipe, client, unit, orchestrator, variant, ident, cold, dirExists, stopped, budget>>

\* What `stop` and key `q` do after the reply, by copy:
\*   part_001:      shutdown(): stopServer(), then await controlCleanup()
\*   template, web: server.stop(true); process.exit(0)
StopPc(p, f) == [f EXCEPT ![p] = IF variant = "part_001" THEN "closing" ELSE "exited"]
StopBound(p) ==
  IF variant = "part_001" THEN stopServer(p, bound) ELSE ExitBound(p, bound)
StopSock(p) == IF variant = "part_001" THEN sock ELSE ExitSock(p, sock)
StopTasks(p) ==
  IF variant = "part_001" THEN tasks ELSE [tasks EXCEPT ![p] = [u \in TaskIds |-> IdleTask]]

\* The statements of the `stop` branch of the data handler, in code order.
StopSteps ==
  IF variant = "web" THEN <<"stop", "exit">>
  ELSE IF variant = "template" THEN <<"write:ok", "stop", "exit">>
  ELSE <<"write:ok", "stop", "close">>

\* `stop` on the control socket. The web copy writes no reply: its client is
\* left to its timeout.
ControlStop(p, c) ==
  /\ Sends(c, p, "stop")
  /\ pc' = IF variant = "web" THEN StopPc(p, pc) ELSE AckPc(StopPc(p, pc), c)
  /\ bound' = StopBound(p)
  /\ server' = [server EXCEPT ![p].live = FALSE]
  /\ sock' = StopSock(p)
  /\ tasks' = StopTasks(p)
  /\ stopped' = [stopped EXCEPT ![p] = TRUE]
  /\ ev' = Event("stop", p, StopSteps, server[p].port, 0, "", DoneScan)
  /\ UNCHANGED <<pipe, client, unit, orchestrator, variant, ident, cold, dirExists, budget>>

\* Key `q` or Ctrl-C in raw mode.
KeyStop(p) ==
  /\ pc[p] = "up"
  /\ pc' = StopPc(p, pc)
  /\ bound' = StopBound(p)
  /\ server' = [server EXCEPT ![p].live = FALSE]
  /\ sock' = StopSock(p)
  /\ tasks' = StopTasks(p)
  /\ stopped' = [stopped EXCEPT ![p] = TRUE]
  /\ ev' = Quiet
  /\ UNCHANGED <<pipe, client, unit, orchestrator, variant, ident, cold, dirExists, budget>>

\* part_001: the control listener has closed; cleanup unlinks whatever is at
\* the socket path and shutdown calls process.exit(0).
CleanupDone(p) ==
  /\ pc[p] = "closing"
  /\ pc' = [pc EXCEPT ![p] = "exited"]
  /\ sock' = [sock EXCEPT ![ident[p]] = "none"]
  /\ bound' = ExitBound(p, bound)
  /\ tasks' = [tasks EXCEPT ![p] = [u \in TaskIds |-> IdleTask]]
  /\ ev' = Quiet
  /\ UNCHANGED <<pipe, client, unit, orchestrator, variant, ident, server, cold, dirExists, stopped, budget>>

\* A bind loop of process p is pending: a scan of it is in flight, or it waits
\* for the ack of `stop`.
LoopPending(p) ==
  \/ pc[p] \in {"discovering", "awaitAck", "acked"}
  \/ pc[p] # "exited" /\ \E t \in TaskIds : tasks[p][t].st = "disc"

\* A process outside the control plane binds or releases a port. Only a bind
\* loop observes whether such a port is taken, so the move is taken while one
\* is pending.
ExtMove(q) ==
  /\ budget.ext > 0
  /\ \E p \in Procs : LoopPending(p)
  /\ bound[q] \in {"free", "ext"}
  /\ bound' = [bound EXCEPT ![q] = IF @ = "free" THEN "ext" ELSE "free"]
  /\ budget' = [budget EXCEPT !.ext = @ - 1]
  /\ ev' = Quiet
  /\ UNCHANGED <<pipe, client, unit, orchestrator, variant, ident, pc, server, cold, tasks, dirExists, sock, stopped>>

Clients == Procs \cup {"operator"}

Next ==
  \/ \E p \in Procs : ColdDiscover(p)
  \/ \E p \in Procs : ColdReply(p)
  \/ \E p \in Procs : ColdStart(p)
  \/ \E p \in Procs : ColdExit(p)
  \/ \E p \in Procs : AckTimeout(p)
  \/ \E p \in Procs : OpenControl(p)
  \/ \E p \in Procs, c \in Clients : ControlRestart(p, c)
  \/ \E p \in Procs : KeyRestart(p)
  \/ \E p \in Procs, t \in TaskIds : RestartReply(p, t)
  \/ \E p \in Procs, t \in TaskIds : RestartFinish(p, t)
  \/ \E p \in Procs, c \in Clients : ControlStop(p, c)
  \/ \E p \in Procs : KeyStop(p)
  \/ \E p \in Procs : CleanupDone(p)
  \/ \E q \in Ports : ExtMove(q)

Spec == Init /\ [][Next]_vars

----------------------------------------------------------------------------
\* The template's startServer on its own: processes that allocate a port from
\* a start port of their choice, release it and allocate again, next to
\* listeners outside the control plane.

InitAlloc ==
  /\ variant = "template"
  /\ ident = [p \in Procs |-> "app"]
  /\ pc = [p \in Procs |-> "init"]
  /\ server = [p \in Procs |-> [port |-> BasePort, live |-> FALSE]]
  /\ bound \in [Ports -> {"free", "ext"}]
  /\ cold \in [Procs -> {[NoCold EXCEPT !.port = q] : q \in Ports}]
  /\ tasks = [p \in Procs |-> [t \in TaskIds |-> IdleTask]]
  /\ dirExists = FALSE
  /\ sock = [x \in Stems |-> "none"]
  /\ stopped = [p \in Procs |-> FALSE]
  /\ budget = [restarts |-> MaxRestarts, ext |-> MaxExtMoves]
  /\ ev = Quiet
  /\ NotOrchestrating
  /\ unit = NoUnit
  /\ client = NoClient
  /\ pipe = NoPipe



\* startServer(config, startPort), one callback turn.
Allocate(p) ==
  /\ pc[p] = "init"
  /\ \E f \in Faults, error \in Fatal :
       LET from == cold[p].port
           r == startServer(from, <<>>, f)
       IN /\ ev' = Event(r.kind, p, r.tried, r.port, from, bound[from], DoneScan)
          /\ IF r.kind = "bind"
             THEN /\ pc' = [pc EXCEPT ![p] = "bound"]
                  /\ server' = [server EXCEPT ![p] = [port |-> r.port, live |-> TRUE]]
                  /\ bound' = [bound EXCEPT ![r.port] = p]
             ELSE /\ pc' = [pc EXCEPT ![p] = "exited"]
                  /\ UNCHANGED <<server, bound>>
  /\ UNCHANGED <<pipe, client, unit, orchestrator, variant, ident, cold, tasks, dirExists, sock, stopped, budget>>

\* server.stop(true) on the bound service, and the start port of the next call
\* of startServer (the base port, the port just released, or any other).
Release(p) ==
  /\ pc[p] = "bound"
  /\ budget.restarts > 0
  /\ budget' = [budget EXCEPT !.restarts = @ - 1]
  /\ bound' = stopServer(p, bound)
  /\ server' = [server EXCEPT ![p].live = FALSE]
  /\ pc' = [pc EXCEPT ![p] = "init"]
  /\ \E q \in Ports : cold' = [cold EXCEPT ![p].port = q]
  /\ ev' = Quiet
  /\ UNCHANGED <<pipe, client, unit, orchestrator, variant, ident, tasks, dirExists, sock, stopped>>

\* A process outside the control plane binds or releases a port.
OtherListener(q) ==
  /\ budget.ext > 0
  /\ bound[q] \in {"free", "ext"}
  /\ bound' = [bound EXCEPT ![q] = IF bound[q] = "free" THEN "ext" ELSE "free"]
  /\ budget' = [budget EXCEPT !.ext = @ - 1]
  /\ ev' = Quiet
  /\ UNCHANGED <<pipe, client, unit, orchestrator, variant, ident, pc, server, cold, tasks, dirExists, sock, stopped>>

NextAlloc ==
  \/ \E p \in Procs : Allocate(p)
  \/ \E p \in Procs : Release(p)
  \/ \E q \in Ports : OtherListener(q)

SpecAlloc == InitAlloc /\ [][NextAlloc]_vars

----------------------------------------------------------------------------
\* discoverRunningServers on its own: process A scans the control directory
\* again and again while what is in the directory changes: the socket of peer
\* B, a socket file nobody listens on, and the socket of a process that is no
\* supervisor and answers `info` with something else.

InitDiscover ==
  /\ variant = "part_001"
  /\ ident = [A |-> "app", B |-> "docs"]
  /\ pc \in {f \in [Procs -> {"init", "up", "exited"}] : f["A"] = "init" /\ f["B"] # "init"}
  /\ server \in {f \in [Procs -> [port : Ports, live : BOOLEAN]] :
                   /\ f["A"] = [port |-> BasePort, live |-> FALSE]
                   /\ f["B"].live = (pc["B"] = "up")}
  /\ bound = [q \in Ports |-> IF server["B"].live /\ server["B"].port = q THEN "B" ELSE "free"]
  /\ cold = [p \in Procs |-> NoCold]
  /\ tasks = [p \in Procs |-> [t \in TaskIds |-> IdleTask]]
  /\ dirExists \in BOOLEAN
  /\ sock \in {f \in [Stems -> {"none", "stale", "junk", "mute", "B"}] :
                 /\ f["app"] \in (IF dirExists THEN {"none", "stale"} ELSE {"none"})
                 /\ f["docs"] = (IF ~dirExists THEN "none" ELSE IF pc["B"] = "up" THEN "B" ELSE "stale")
                 /\ f[JunkStem] \in (IF dirExists THEN {"none", "junk", "mute"} ELSE {"none"})}
  /\ stopped = [p \in Procs |-> FALSE]
  /\ budget = [restarts |-> MaxRestarts, ext |-> MaxExtMoves]
  /\ ev = Quiet
  /\ NotOrchestrating
  /\ unit = NoUnit
  /\ client = NoClient
  /\ pipe = NoPipe



\* discoverRunningServers(controlDir) is called.
Discover(p) ==
  /\ pc[p] = "init"
  /\ pc' = [pc EXCEPT ![p] = "discovering"]
  /\ cold' = [cold EXCEPT ![p].scan = discoverRunningServers]
  /\ ev' = Quiet
  /\ UNCHANGED <<pipe, client, unit, orchestrator, variant, ident, server, bound, tasks, dirExists, sock, stopped, budget>>

\* One `info` query of the scan settles.
DiscoverReply(p) ==
  /\ pc[p] = "discovering"
  /\ \E s \in cold[p].scan.pending : \E r \in Responses(s) :
       cold' = [cold EXCEPT ![p].scan = ScanStep(cold[p].scan, s, r)]
  /\ ev' = Quiet
  /\ UNCHANGED <<pipe, client, unit, orchestrator, variant, ident, pc, server, bound, tasks, dirExists, sock, stopped, budget>>

\* Promise.all has resolved (or there was nothing to wait for): the map is
\* returned.
DiscoverReturn(p) ==
  /\ pc[p] = "discovering"
  /\ cold[p].scan.pending = {}
  /\ pc' = [pc EXCEPT ![p] = "scanned"]
  /\ ev' = Event("discovered", p, <<>>, 0, 0, "", cold[p].scan)
  /\ UNCHANGED <<pipe, client, unit, orchestrator, variant, ident, server, bound, cold, tasks, dirExists, sock, stopped, budget>>

\* The caller is done with the map; the next call.
DiscoverAgain(p) ==
  /\ pc[p] = "scanned"
  /\ budget.restarts > 0
  /\ budget' = [budget EXCEPT !.restarts = @ - 1]
  /\ pc' = [pc EXCEPT ![p] = "init"]
  /\ ev' = Quiet
  /\ UNCHANGED <<pipe, client, unit, orchestrator, variant, ident, server, bound, cold, tasks, dirExists, sock, stopped>>

\* Peer B is killed: its listeners are closed, its socket file stays.
PeerKilled(q) ==
  /\ pc[q] = "up"
  /\ pc' = [pc EXCEPT ![q] = "exited"]
  /\ bound' = ExitBound(q, bound)
  /\ server' = [server EXCEPT ![q].live = FALSE]
  /\ sock' = ExitSock(q, sock)
  /\ ev' = Quiet
  /\ UNCHANGED <<pipe, client, unit, orchestrator, variant, ident, cold, tasks, dirExists, stopped, budget>>

\* The process that is no supervisor opens or removes its socket.
JunkSocket ==
  /\ dirExists
  /\ budget.ext > 0
  /\ budget' = [budget EXCEPT !.ext = @ - 1]
  /\ \E k \in {"junk", "mute"} :
       sock' = [sock EXCEPT ![JunkStem] = IF @ = "none" THEN k ELSE "none"]
  /\ ev' = Quiet
  /\ UNCHANGED <<pipe, client, unit, orchestrator, variant, ident, pc, server, bound, cold, tasks, dirExists, stopped>>

NextDiscover ==
  \/ Discover("A")
  \/ DiscoverReply("A")
  \/ DiscoverReturn("A")
  \/ DiscoverAgain("A")
  \/ PeerKilled("B")
  \/ JunkSocket

SpecDiscover == InitDiscover /\ [][NextDiscover]_vars

\* The event loop runs every callback that is due: the handlers and the timer
\* of a query in flight, and the continuation of a Promise.all that resolved.
SpecDiscoverFair ==
  /\ SpecDiscover
  /\ WF_vars(DiscoverReply("A"))
  /\ WF_vars(DiscoverReturn("A"))

----------------------------------------------------------------------------
\* Teardown on its own: two supervisors that are up receive SIGINT and SIGTERM,
\* `stop` and key `q`. A signal handler is `() => void cleanup()`; cleanup runs
\* in three turns: controlServer.close(cb), the continuation after cb
\* (existsSync, rm) and the continuation after rm. close() on a listener that
\* is already closing or closed still calls cb once the 'close' event is out.

\* A cleanup that removes without `force`.
rmStrict(at, force) == IF at = "none" THEN "ENOENT" ELSE "ok"

\* rm(controlSocket, { force }) on a path at which there is `at`.
rm(at, force) == IF at = "none" /\ ~force THEN "ENOENT" ELSE "ok"

InitTeardown ==
  /\ variant \in Variants
  /\ ident = [A |-> "app", B |-> "docs"]
  /\ pc = [p \in Procs |-> "up"]
  /\ server = [A |-> [port |-> 1, live |-> TRUE], B |-> [port |-> 2, live |-> TRUE]]
  /\ bound = [q \in Ports |-> IF q = 1 THEN "A" ELSE IF q = 2 THEN "B" ELSE "free"]
  /\ cold = [p \in Procs |-> NoCold]
  /\ tasks = [p \in Procs |-> [t \in TaskIds |-> IdleTask]]
  /\ dirExists = TRUE
  /\ sock = [x \in Stems |-> IF x = "app" THEN "A" ELSE IF x = "docs" THEN "B" ELSE "none"]
  /\ stopped = [p \in Procs |-> FALSE]
  /\ budget = [restarts |-> MaxRestarts, ext |-> MaxExtMoves]
  /\ ev = Quiet
  /\ NotOrchestrating
  /\ unit = NoUnit
  /\ client = NoClient
  /\ pipe = NoPipe



\* process.on('SIGINT' | 'SIGTERM', () => void cleanup()): cleanup up to its
\* first await. The listener stops accepting at once; the file stays.
Signal(p, sig) ==
  /\ pc[p] \in {"up", "closing"}
  /\ budget.restarts > 0
  /\ budget' = [budget EXCEPT !.restarts = @ - 1]
  /\ tasks' = [tasks EXCEPT ![p][FreeSlot(p)] = [IdleTask EXCEPT !.st = "close", !.src = sig]]
  /\ sock' = [sock EXCEPT ![ident[p]] = IF @ = p THEN "stale" ELSE @]
  /\ ev' = Event("signal", p, <<sig, "close">>, server[p].port, 0, "", DoneScan)
  /\ UNCHANGED <<pipe, client, unit, orchestrator, variant, ident, pc, server, bound, cold, dirExists, stopped>>

\* The callback of controlServer.close has run: existsSync(controlSocket), and
\* rm is started when there is a file.
CleanupClosed(p, t) ==
  /\ pc[p] # "exited"
  /\ tasks[p][t].st = "close"
  /\ IF sock[ident[p]] # "none"
     THEN /\ tasks' = [tasks EXCEPT ![p][t].st = "rm"]
          /\ ev' = Quiet
     ELSE /\ tasks' = [tasks EXCEPT ![p][t] = IdleTask]
          /\ ev' = Event("cleaned", p, <<tasks[p][t].src, "absent", "ok">>, server[p].port, 0, sock[ident[p]], DoneScan)
  /\ UNCHANGED <<pipe, client, unit, orchestrator, variant, ident, pc, server, bound, cold, dirExists, sock, stopped, budget>>

\* rm(controlSocket, { force: true }) has settled: cleanup returns or throws.
CleanupRemoved(p, t) ==
  /\ pc[p] # "exited"
  /\ tasks[p][t].st = "rm"
  /\ LET result == rm(sock[ident[p]], TRUE)
     IN ev' = Event("cleaned", p, <<tasks[p][t].src, "rm", result>>, server[p].port, 0, sock[ident[p]], DoneScan)
  /\ sock' = [sock EXCEPT ![ident[p]] = "none"]
  /\ tasks' = [tasks EXCEPT ![p][t] = IdleTask]
  /\ UNCHANGED <<pipe, client, unit, orchestrator, variant, ident, pc, server, bound, cold, dirExists, stopped, budget>>

\* The data handler on anything but restart, stop and info.
ControlUnknown(p) ==
  /\ Accepting(p)
  /\ \E x \in Stems : sock[x] = p
  /\ ev' = Event("unknown", p, <<"write:error:unknown-command">>, server[p].port, 0, "", DoneScan)
  /\ UNCHANGED <<pipe, client, unit, orchestrator, variant, ident, pc, server, bound, cold, tasks, dirExists, sock, stopped, budget>>

NextTeardown ==
  \/ \E p \in Procs : ControlUnknown(p)
  \/ \E p \in Procs, sig \in {"SIGINT", "SIGTERM"} : Signal(p, sig)
  \/ \E p \in Procs, t \in TaskIds : CleanupClosed(p, t)
  \/ \E p \in Procs, t \in TaskIds : CleanupRemoved(p, t)
  \/ \E p \in Procs : ControlStop(p, "operator")
  \/ \E p \in Procs : KeyStop(p)
  \/ \E p \in Procs : CleanupDone(p)

SpecTeardown == InitTeardown /\ [][NextTeardown]_vars

----------------------------------------------------------------------------
\* The orchestrator: main of scripts/dev-tui.ts from the point at which the
\* signal and stdin handlers are attached. A step is one turn of the event
\* loop together with the promise continuations that run before the next turn.
\* A second invocation over the same workspaces shows here as the `restart` it
\* writes to the control socket. Workspace names are taken to be distinct.

\* The values the closures of main read and write, gathered into a record;
\* killed and started collect what a turn does for `did`.
Now ==
  [main |-> main, children |-> children, spawned |-> spawned,
   restarting |-> restarting, controlServer |-> controlServer,
   stopping |-> stopping, closing |-> closing, connections |-> connections,
   socketFile |-> socketFile,
   killed |-> {}, started |-> {}]

Selected == {workspaces[i] : i \in 1..Len(workspaces)}

\* The number of the startAll call that comes next.
NextGen(s) == 1 + Cardinality({g \in Gens : \E n \in Names : s.spawned[<<g, n>>] # "none"})

\* [...children.values()]
Tracked(s) == {<<s.children[n], n>> : n \in {m \in Names : s.children[m] # 0}}

\* The tracked children whose `exited` promise is still pending.
Awaited(s) == {k \in Tracked(s) : s.spawned[k] = "alive"}

\* startAll: spawn one child per workspace, children.set(workspace.name, child).
startAll(s) ==
  LET g == NextGen(s)
      new == {<<g, n>> : n \in Selected}
  IN [s EXCEPT !.children = [n \in Names |-> IF n \in Selected THEN g ELSE @[n]],
               !.spawned = [k \in Kids |-> IF k \in new THEN "alive" ELSE @[k]],
               !.started = @ \cup new]

\* What follows `await stopAll()` in its caller; nothing runs after
\* process.exit.
resume(by, s) ==
  IF s.main = "exited" THEN s
  ELSE IF by = "restartAll" THEN [startAll(s) EXCEPT !.restarting = FALSE]
  ELSE [s EXCEPT !.main = "exited"]

RECURSIVE resumeAll(_, _)
resumeAll(calls, s) ==
  IF calls = <<>> THEN s ELSE resumeAll(Tail(calls), resume(Head(calls).by, s))

\* Promise.all of these stopAll calls has resolved in the same turn: the
\* reactions run in the order in which the calls were made, first each
\* children.clear(), then each caller's continuation.
settle(calls, s) ==
  IF calls = <<>> THEN s ELSE resumeAll(calls, [s EXCEPT !.children = NoChildren])

\* stopAll called by `by`: kill every tracked child and await its exit.
stopAll(by, s) ==
  LET waits == Awaited(s)
      call == [by |-> by, waits |-> waits]
      k == [s EXCEPT !.killed = @ \cup waits]
  IN IF waits = {} THEN settle(<<call>>, k)
     ELSE [k EXCEPT !.stopping = Append(@, call)]

\* A restartAll that does not look at the flag.
restartAllUnguarded(s) == stopAll("restartAll", [s EXCEPT !.restarting = TRUE])

\* restartAll up to `await stopAll()`, and beyond it when nothing is awaited.
restartAll(s) ==
  IF s.restarting THEN s
  ELSE stopAll("restartAll", [s EXCEPT !.restarting = TRUE])

\* shutdown up to its first await that does not settle in the same turn.
shutdown(s) ==
  IF s.controlServer # "null"
  THEN [s EXCEPT !.controlServer = "closing", !.closing = @ + 1,
                 !.socketFile = IF @ = "first" THEN "stale" ELSE @]
  ELSE stopAll("shutdown", s)

Restarts(s) == Cardinality({i \in 1..Len(s.stopping) : s.stopping[i].by = "restartAll"})
Shutdowns(s) == s.closing + Cardinality({i \in 1..Len(s.stopping) : s.stopping[i].by = "shutdown"})

\* The model follows MaxRestarts restarts and MaxShutdowns overlapping
\* shutdown calls.
WithinBounds(s) ==
  /\ NextGen(s) + Restarts(s) + (IF s.main = "starting" THEN 1 ELSE 0) <= MaxRestarts + 2
  /\ \A n \in Names : s.children[n] \in Gens \cup {0}
  /\ Shutdowns(s) <= MaxShutdowns

\* workspaces.find((workspace) => latestUrl.has(workspace.name)) and what
\* openBrowser is called with; <<>> when it is not called.
openTarget ==
  LET has == {i \in 1..Len(workspaces) : latestUrl[workspaces[i]] # <<>>}
  IN IF has = {} THEN <<>>
     ELSE latestUrl[workspaces[CHOOSE i \in has : \A j \in has : i <= j]]

\* console.log of `[label] text`
Labelled(label, text) == [label |-> label, text |-> text]

\* What the turn prints, apart from the lines of the children.
Printed(op, arg) ==
  IF op = "exited" THEN <<Labelled(arg, <<"process exited">>)>>
  ELSE IF op = "key" /\ arg = "o" /\ openTarget = <<>>
       THEN <<Labelled("", <<"No server URL detected yet.">>)>>
  ELSE <<>>

\* The turn ends in state s, having done `op` on `arg`.
Commit(s, op, arg) ==
  /\ main' = s.main
  /\ children' = s.children
  /\ spawned' = s.spawned
  /\ restarting' = s.restarting
  /\ controlServer' = s.controlServer
  /\ stopping' = s.stopping
  /\ closing' = s.closing
  /\ connections' = s.connections
  /\ socketFile' = s.socketFile
  /\ did' = [op |-> op, arg |-> arg, flag |-> restarting, killed |-> s.killed,
             started |-> s.started, reply |-> "",
             alive |-> {k \in Kids : spawned[k] = "alive"},
             printed |-> Printed(op, arg),
             launched |-> IF (op = "key" /\ arg = "o") \/ (op = "data" /\ arg = "open")
                          THEN openTarget ELSE <<>>,
             prior |-> latestUrl]
  /\ UNCHANGED <<pipe, client, unit, supervisor, workspaces, second, latestUrl, urlFrom>>

\* No supervisor runs next to the orchestrator.
NotSupervising ==
  /\ variant = "part_001"
  /\ ident = [p \in Procs |-> "app"]
  /\ pc = [p \in Procs |-> "exited"]
  /\ server = [p \in Procs |-> [port |-> BasePort, live |-> FALSE]]
  /\ bound = [q \in Ports |-> "free"]
  /\ cold = [p \in Procs |-> NoCold]
  /\ tasks = [p \in Procs |-> [t \in TaskIds |-> IdleTask]]
  /\ dirExists = FALSE
  /\ sock = [x \in Stems |-> "none"]
  /\ stopped = [p \in Procs |-> FALSE]
  /\ budget = [restarts |-> MaxRestarts, ext |-> MaxExtMoves]
  /\ ev = Quiet

\* main has chosen its workspaces and attached its handlers; it is about to
\* await tryNotifyExisting and startControlServer.
InitTui ==
  /\ NotSupervising
  /\ main = "starting"
  /\ workspaces \in {<<"docs">>, <<"docs", "web">>}
  /\ children = NoChildren
  /\ spawned = [k \in Kids |-> "none"]
  /\ restarting = FALSE
  /\ controlServer = "null"
  /\ stopping = <<>>
  /\ closing = 0
  /\ connections = 0
  /\ socketFile = "none"
  /\ second = NotInvoked
  /\ latestUrl = NoUrls
  /\ urlFrom = [n \in Names |-> 0]
  /\ did = Idle
  /\ unit = NoUnit
  /\ client = NoClient
  /\ pipe = NoPipe


\* The last turn of startControlServer and the startAll() that ends main.
Started ==
  /\ main = "starting"
  /\ Commit(startAll([Now EXCEPT !.main = "running", !.controlServer = "listening",
                                  !.socketFile = "first"]), "started", "")

\* stdin.on('data'): a key.
KeyPress(key) ==
  /\ main \in {"starting", "running"}
  /\ LET s == IF key = "r" THEN restartAll(Now)
              ELSE IF key \in {"q", "ctrl-c"} THEN shutdown(Now)
              ELSE Now
     IN /\ WithinBounds(s)
        /\ Commit(s, "key", key)

\* process.on('SIGINT' | 'SIGTERM').
OnSignal(sig) ==
  /\ main \in {"starting", "running"}
  /\ WithinBounds(shutdown(Now))
  /\ Commit(shutdown(Now), "signal", sig)

\* socket.on('data') of the control server: handleControlMessage up to its
\* first pending await. The handler never writes to the socket and never ends
\* it: the connection stays until its client closes it, which the client has
\* done by now (printf message | nc -U) or has not (held).
handleControlMessage(message) ==
  /\ main = "running"
  /\ controlServer = "listening"
  /\ \E held \in BOOLEAN :
       LET now == [Now EXCEPT !.connections = IF held /\ @ < MaxConnections THEN @ + 1 ELSE @]
           s == IF message = "restart" THEN restartAll(now)
                ELSE IF message = "stop" THEN shutdown(now)
                ELSE now
       IN /\ held => connections < MaxConnections
          /\ WithinBounds(s)
          /\ Commit(s, "data", message)

\* A client closes its connection to the control server.
ClientCloses ==
  /\ main = "running"
  /\ connections > 0
  /\ Commit([Now EXCEPT !.connections = @ - 1], "end", "")

\* shutdown after controlServer.close and rm have settled: controlServer =
\* null, then stopAll. The callback of close runs when the listener has
\* stopped and every connection has ended.
Closed ==
  /\ main = "running"
  /\ closing > 0
  /\ connections = 0
  /\ Commit(stopAll("shutdown", [Now EXCEPT !.controlServer = "null", !.closing = @ - 1,
                                          !.socketFile = "none"]), "closed", "")

\* A child exit that makes the orchestrator shut down.
ExitedHalts(k) ==
  /\ main \in {"starting", "running"}
  /\ spawned[k] = "alive"
  /\ Commit(shutdown([Now EXCEPT !.spawned[k] = "exited"]), "exited", k[2])

\* A child process has exited, killed or on its own: child.exited resolves and
\* with it every stopAll call that awaited nothing else.
Exited(k) ==
  /\ main \in {"starting", "running"}
  /\ spawned[k] = "alive"
  /\ LET left == [i \in 1..Len(stopping) |-> [stopping[i] EXCEPT !.waits = @ \ {k}]]
         ready == SelectSeq(left, LAMBDA c : c.waits = {})
         rest == SelectSeq(left, LAMBDA c : c.waits # {})
     IN Commit(settle(ready, [Now EXCEPT !.spawned[k] = "exited", !.stopping = rest]), "exited", k[2])

Keys == {"r", "q", "o", "ctrl-c", "x"}
Messages == {"restart", "stop", "open", "info", "status"}

NextTui ==
  \/ Started
  \/ \E key \in Keys : KeyPress(key)
  \/ \E sig \in {"SIGINT", "SIGTERM"} : OnSignal(sig)
  \/ \E message \in Messages : handleControlMessage(message)
  \/ Closed
  \/ ClientCloses
  \/ \E k \in Kids : Exited(k)

SpecTui == InitTui /\ [][NextTui]_vars

\* A child that was killed exits.
KilledExits == \E k \in Kids : (\E i \in 1..Len(stopping) : k \in stopping[i].waits) /\ Exited(k)

\* The callbacks of the runtime run when they are due, and a killed child
\* exits; what a client of the control socket does is left open.
SpecTuiFair == SpecTui /\ WF_vars(Closed) /\ WF_vars(KilledExits)

----------------------------------------------------------------------------
\* A second invocation of dev-tui over the same workspaces, next to the first:
\* main from the point at which its handlers are attached (line 363) to its
\* exit or to the end of main. What it writes to the control socket reaches
\* the first as a handleControlMessage turn.

\* The first invocation is starting, or was killed and has left its socket
\* file behind.
InitNotify ==
  /\ NotSupervising
  /\ main \in {"starting", "exited"}
  /\ socketFile \in (IF main = "exited" THEN {"stale"} ELSE {"none", "stale"})
  /\ workspaces \in {<<"docs">>, <<"docs", "web">>}
  /\ children = NoChildren
  /\ spawned = [k \in Kids |-> "none"]
  /\ restarting = FALSE
  /\ controlServer = "null"
  /\ stopping = <<>>
  /\ closing = 0
  /\ connections = 0
  /\ second = NotInvoked
  /\ latestUrl = NoUrls
  /\ urlFrom = [n \in Names |-> 0]
  /\ did = Idle
  /\ unit = NoUnit
  /\ client = NoClient
  /\ pipe = NoPipe


First == <<main, workspaces, children, spawned, restarting, controlServer, stopping, closing,
           connections, latestUrl, urlFrom, did>>

\* A connect to controlSocket reaches a listener.
Listening == socketFile = "first" /\ main = "running" /\ controlServer = "listening"

\* tryNotifyExisting up to its await: existsSync(controlSocket), connect.
Invoke ==
  /\ second.pc = "absent"
  /\ second' = [second EXCEPT !.beside = main,
                              !.pc = IF socketFile = "none" THEN "opening" ELSE "connecting",
                              !.found = IF socketFile = "none" THEN "none" ELSE ""]
  /\ UNCHANGED <<pipe, client, unit, supervisor, First, socketFile>>

\* The key r in the second invocation while its main awaits: restartAll on
\* an empty children map runs through to startAll.
SecondKey ==
  /\ second.pc \in {"connecting", "opening"}
  /\ second.started = 0
  /\ second' = [second EXCEPT !.started = @ + 1]
  /\ UNCHANGED <<pipe, client, unit, supervisor, First, socketFile>>

\* The connect of tryNotifyExisting settles: write('restart'), end,
\* resolve(true) and process.exit(0), or 'error' and resolve(false).
tryNotifyExisting ==
  /\ second.pc = "connecting"
  /\ second' = IF Listening
               THEN [second EXCEPT !.pc = "exited", !.found = "connected", !.wrote = "restart"]
               ELSE [second EXCEPT !.pc = "opening", !.found = "refused"]
  /\ UNCHANGED <<pipe, client, unit, supervisor, First, socketFile>>

\* startControlServer (rm of what is at the path, listen) and startAll.
startControlServer ==
  /\ second.pc = "opening"
  /\ second' = [second EXCEPT !.pc = "running", !.opened = TRUE, !.started = @ + 1]
  /\ socketFile' = "second"
  /\ UNCHANGED <<pipe, client, unit, supervisor, First>>

NextNotify ==
  \/ Started
  \/ \E key \in Keys : KeyPress(key)
  \/ \E sig \in {"SIGINT", "SIGTERM"} : OnSignal(sig)
  \/ \E message \in Messages : handleControlMessage(message)
  \/ Closed
  \/ ClientCloses
  \/ \E k \in Kids : Exited(k)
  \/ Invoke
  \/ SecondKey
  \/ tryNotifyExisting
  \/ startControlServer

SpecNotify == InitNotify /\ [][NextNotify]_vars

----------------------------------------------------------------------------
\* socketId and controlSocket of dev-tui's main. Strings are sequences of
\* UTF-16 code units, which is what Array.prototype.sort compares. The SHA-1
\* digest is taken to be free of collisions: it stands for its input.

Slash == 47
Bar == 124
RootDir == <<Slash, 114>>
\* /r/a, /r/b and /r/a|/r/b
Dirs == {RootDir \o <<Slash, 97>>, RootDir \o <<Slash, 98>>,
         RootDir \o <<Slash, 97, Bar>> \o RootDir \o <<Slash, 98>>}

\* Lists of distinct directories: what chooseWorkspaces can return.
Selections ==
  UNION {{q \in [1..n -> Dirs] : \A i, j \in 1..n : i # j => q[i] # q[j]} : n \in 1..Cardinality(Dirs)}

RECURSIVE before(_, _)
\* a sorts before b: the comparison of the default sort.
before(a, b) ==
  IF a = <<>> THEN b # <<>>
  ELSE IF b = <<>> THEN FALSE
  ELSE IF Head(a) # Head(b) THEN Head(a) < Head(b)
  ELSE before(Tail(a), Tail(b))

RECURSIVE join(_, _)
\* Array.prototype.join
join(list, sep) ==
  IF list = <<>> THEN <<>>
  ELSE IF Len(list) = 1 THEN list[1]
  ELSE list[1] \o sep \o join(Tail(list), sep)

\* createHash('sha1').update(dirs.sort().join('|')).digest('hex').slice(0, 8)
socketId(ws) == join(SortSeq(ws, before), <<Bar>>)

\* path.join(controlDir, `dev-tui-${socketId}.sock`)
controlSocket(ws) == [dir |-> RootDir \o <<Slash>> \o <<46, 100, 101, 118>>, id |-> socketId(ws)]

\* Two invocations with a selection each.
InitSocketId ==
  /\ NotSupervising
  /\ NotOrchestrating
  /\ client = NoClient
  /\ pipe = NoPipe
  /\ unit \in {[fn |-> "controlSocket", in |-> <<a, b>>, out |-> <<>>] : a, b \in Selections}

\* Both compute their controlSocket.
ComputeSocket ==
  /\ unit.fn = "controlSocket"
  /\ unit.out = <<>>
  /\ unit' = [unit EXCEPT !.out = <<controlSocket(unit.in[1]), controlSocket(unit.in[2])>>]
  /\ UNCHANGED <<supervisor, orchestrator, client, pipe>>

NextSocketId == ComputeSocket

SpecSocketId == InitSocketId /\ [][NextSocketId]_vars

----------------------------------------------------------------------------
\* Output of the children: the onLine callback of startAll, the open command
\* and the exit of a child. A line is a sequence of tokens: Scheme stands for
\* "http://" or "https://", Space for a whitespace character, Other for any
\* other character.

MaxLine == 3

Scheme == "http://"
Space == " "
Other == "a"
Tokens == {Scheme, Space, Other}
Lines == UNION {[1..n -> Tokens] : n \in 0..MaxLine}

RECURSIVE runEnd(_, _)
\* [^\s]+ from position j on: the last position of the run of non-whitespace.
runEnd(line, j) ==
  IF j < Len(line) /\ line[j + 1] # Space THEN runEnd(line, j + 1) ELSE j

RECURSIVE matchFrom(_, _)
matchFrom(line, i) ==
  IF i >= Len(line) THEN <<>>
  ELSE IF line[i] = Scheme /\ line[i + 1] # Space THEN SubSeq(line, i, runEnd(line, i + 1))
  ELSE matchFrom(line, i + 1)

\* A match that runs from the first scheme to the end of the line.
matchToEnd(line) ==
  LET at == {i \in 1..Len(line) : line[i] = Scheme /\ i < Len(line) /\ line[i + 1] # Space}
  IN IF at = {} THEN <<>> ELSE SubSeq(line, CHOOSE i \in at : \A j \in at : i <= j, Len(line))

\* line.match(/https?:\/\/[^\s]+/): match[0], or <<>> for null.
match(line) == matchFrom(line, 1)

\* The callback startAll hands to attachOutput for workspace n.
onLine(n, line, urls) ==
  IF match(line) # <<>> THEN [urls EXCEPT ![n] = match(line)] ELSE urls

\* main has run to its end without a key in between: generation 1 runs.
InitOutput ==
  /\ NotSupervising
  /\ main = "running"
  /\ workspaces \in {<<"docs", "web">>, <<"web", "docs">>}
  /\ children = [n \in Names |-> 1]
  /\ spawned = [k \in Kids |-> IF k[1] = 1 THEN "alive" ELSE "none"]
  /\ restarting = FALSE
  /\ controlServer = "listening"
  /\ stopping = <<>>
  /\ closing = 0
  /\ connections = 0
  /\ socketFile = "first"
  /\ second = NotInvoked
  /\ latestUrl = NoUrls
  /\ urlFrom = [n \in Names |-> 0]
  /\ did = Idle
  /\ unit = NoUnit
  /\ client = NoClient
  /\ pipe = NoPipe

\* attachOutput has cut a line out of what child k wrote and calls onLine.
OnLine(k, line) ==
  /\ main = "running"
  /\ spawned[k] = "alive"
  /\ latestUrl' = onLine(k[2], line, latestUrl)
  /\ urlFrom' = IF match(line) # <<>> THEN [urlFrom EXCEPT ![k[2]] = k[1]] ELSE urlFrom
  /\ did' = [Idle EXCEPT !.op = "line", !.arg = k[2],
                         !.alive = {c \in Kids : spawned[c] = "alive"},
                         !.printed = <<Labelled(k[2], line)>>, !.prior = latestUrl]
  /\ UNCHANGED <<pipe, client, unit, supervisor, main, workspaces, children, spawned, restarting,
                 controlServer, stopping, closing, connections, socketFile, second>>

NextOutput ==
  \/ \E k \in Kids, line \in Lines : OnLine(k, line)
  \/ KeyPress("o")
  \/ handleControlMessage("open")
  \/ \E k \in Kids : Exited(k)

SpecOutput == InitOutput /\ [][NextOutput]_vars

\* The same with the key r and the control message `restart`, and with lines
\* of two tokens at most.
NextReopen ==
  \/ \E k \in Kids, line \in {l \in Lines : Len(l) <= 2} : OnLine(k, line)
  \/ \E key \in {"o", "r"} : KeyPress(key)
  \/ \E message \in {"open", "restart"} : handleControlMessage(message)
  \/ \E k \in Kids : Exited(k)

SpecReopen == InitOutput /\ [][NextReopen]_vars

----------------------------------------------------------------------------
\* parsePort and resolveBasePort. An environment value is absent, the empty
\* string, or a string of which only what Number() makes of it matters: NaN,
\* a number that is no integer, or an integer.

DEFAULT_PORT == 3000
MAX_PORT == 65535

Unset == [kind |-> "unset", n |-> 0]
Integer(n) == [kind |-> "int", n |-> n]
\* undefined, "", "abc", "1.5", "-1", "0", "1", "4000", "65535", "65536"
EnvValues ==
  {Unset, [kind |-> "empty", n |-> 0], [kind |-> "nan", n |-> 0], [kind |-> "frac", n |-> 1]}
    \cup {Integer(n) : n \in {0 - 1, 0, 1, 4000, MAX_PORT, MAX_PORT + 1}}
\* config.port: undefined, 0, 8080, 70000
ExplicitValues == {Unset} \cup {Integer(n) : n \in {0, 8080, 70000}}

\* A parsePort that lets 0 through.
parsePortFromZero(value) ==
  IF value.kind \in {"unset", "empty"} THEN Unset
  ELSE IF value.kind # "int" \/ value.n < 0 \/ value.n > MAX_PORT THEN Unset
  ELSE value

\* parsePort: undefined (Unset) for a value that is absent, empty or ignored.
parsePort(value) ==
  IF value.kind \in {"unset", "empty"} THEN Unset
  ELSE IF value.kind # "int" \/ value.n <= 0 \/ value.n > MAX_PORT THEN Unset
  ELSE value

\* console.warn of parsePort
warns(value) == value.kind \notin {"unset", "empty"} /\ parsePort(value) = Unset

\* resolveBasePort(explicit) under the environment PORT, PORT_OFFSET.
resolveBasePort(explicit, PORT, PORT_OFFSET) ==
  IF explicit.kind # "unset" /\ explicit.n # 0 THEN explicit.n
  ELSE IF parsePort(PORT) # Unset THEN parsePort(PORT).n
  ELSE DEFAULT_PORT + (IF parsePort(PORT_OFFSET) # Unset THEN parsePort(PORT_OFFSET).n ELSE 0)

InitBasePort ==
  /\ NotSupervising
  /\ NotOrchestrating
  /\ client = NoClient
  /\ pipe = NoPipe
  /\ unit \in {[fn |-> "resolveBasePort", in |-> <<e, p, o>>, out |-> <<>>] :
                 e \in ExplicitValues, p \in EnvValues, o \in EnvValues}

\* serveWithControl calls resolveBasePort(config.port).
ResolveBasePort ==
  /\ unit.fn = "resolveBasePort"
  /\ unit.out = <<>>
  /\ unit' = [unit EXCEPT !.out = <<resolveBasePort(unit.in[1], unit.in[2], unit.in[3])>>]
  /\ UNCHANGED <<supervisor, orchestrator, client, pipe>>

NextBasePort == ResolveBasePort

SpecBasePort == InitBasePort /\ [][NextBasePort]_vars

----------------------------------------------------------------------------
\* sendControlCommand, event by event (part_001:112-131). The executor of the
\* promise has run: connect() is under way, the timer of 1000 ms is armed and
\* the 'data' and 'error' handlers are attached. The other end of the socket
\* and the clock are the environment.

MaxChunks == 2      \* 'data' events of one connection
MaxChunkLen == 2    \* code units of one chunk

\* The code units of a chunk: a space, a line feed, an opening brace.
Whitespace == {32, 10}
Chars == Whitespace \cup {123}
Chunks == UNION {[1..n -> Chars] : n \in 1..MaxChunkLen}
Commands == {"info", "restart", "stop"}

\* String.prototype.trim
RECURSIVE trimStart(_)
trimStart(s) == IF s # <<>> /\ Head(s) \in Whitespace THEN trimStart(Tail(s)) ELSE s
RECURSIVE trimEnd(_)
trimEnd(s) == IF s # <<>> /\ s[Len(s)] \in Whitespace THEN trimEnd(SubSeq(s, 1, Len(s) - 1)) ELSE s
trim(s) == trimEnd(trimStart(s))

\* The values resolve is called with: false, or a string.
False == [string |-> FALSE, text |-> <<>>]
String(s) == [string |-> TRUE, text |-> s]

\* resolve(value): the first call settles the promise, a later call does nothing.
resolve(value) == IF unit.out = <<>> THEN [unit EXCEPT !.out = <<value>>] ELSE unit

\* clearTimeout(timeout)
clearTimeout(t) == IF t = "armed" THEN "cleared" ELSE t

Saw(e, chunk) == Append(client.seen, [e |-> e, chunk |-> chunk])
Received == Cardinality({i \in 1..Len(client.seen) : client.seen[i].e = "data"})

InitSend ==
  /\ NotSupervising
  /\ NotOrchestrating
  /\ unit \in {[fn |-> "sendControlCommand", in |-> <<m>>, out |-> <<>>] : m \in Commands}
  /\ client = [state |-> "connecting", wrote |-> FALSE, timeout |-> "armed", seen |-> <<>>]
  /\ pipe = NoPipe

\* The connect callback: client.write(message)
Connected ==
  /\ unit.fn = "sendControlCommand"
  /\ client.state = "connecting"
  /\ client' = [client EXCEPT !.state = "open", !.wrote = TRUE, !.seen = Saw("connect", <<>>)]
  /\ UNCHANGED <<supervisor, orchestrator, unit, pipe>>

\* A timer that resolves and leaves the socket as it is.
TimeoutKeepsOpen ==
  /\ unit.fn = "sendControlCommand"
  /\ client.timeout = "armed"
  /\ client' = [client EXCEPT !.timeout = "fired", !.seen = Saw("timeout", <<>>)]
  /\ unit' = resolve(False)
  /\ UNCHANGED <<supervisor, orchestrator, pipe>>

\* The timer callback: client.destroy(); resolve(false)
Timeout ==
  /\ unit.fn = "sendControlCommand"
  /\ client.timeout = "armed"
  /\ client' = [client EXCEPT !.state = "destroyed", !.timeout = "fired",
                              !.seen = Saw("timeout", <<>>)]
  /\ unit' = resolve(False)
  /\ UNCHANGED <<supervisor, orchestrator, pipe>>

\* The 'data' handler: clearTimeout; resolve(data.toString().trim()); client.end().
\* The other end can write before it has read, and after this side has ended.
OnData(data) ==
  /\ unit.fn = "sendControlCommand"
  /\ client.state \in {"open", "ended"}
  /\ Received < MaxChunks
  /\ client' = [client EXCEPT !.state = "ended", !.timeout = clearTimeout(client.timeout),
                              !.seen = Saw("data", data)]
  /\ unit' = resolve(String(trim(data)))
  /\ UNCHANGED <<supervisor, orchestrator, pipe>>

\* The 'error' handler: clearTimeout; resolve(false). The connection is refused,
\* or it breaks later; the socket is gone after its 'error'.
OnError ==
  /\ unit.fn = "sendControlCommand"
  /\ client.state \in {"connecting", "open", "ended"}
  /\ client' = [client EXCEPT !.state = "failed", !.timeout = clearTimeout(client.timeout),
                              !.seen = Saw("error", <<>>)]
  /\ unit' = resolve(False)
  /\ UNCHANGED <<supervisor, orchestrator, pipe>>

\* The other end closes without an error: no handler of sendControlCommand
\* runs, the socket closes and the timer stays as it is.
PeerEnd ==
  /\ unit.fn = "sendControlCommand"
  /\ client.state \in {"open", "ended"}
  /\ client' = [client EXCEPT !.state = "closed", !.seen = Saw("end", <<>>)]
  /\ UNCHANGED <<supervisor, orchestrator, unit, pipe>>

NextSend ==
  \/ Connected
  \/ Timeout
  \/ \E data \in Chunks : OnData(data)
  \/ OnError
  \/ PeerEnd

SpecSend == InitSend /\ [][NextSend]_vars

\* setTimeout(..., 1000): the callback runs unless the timer is cleared.
SpecSendFair == SpecSend /\ WF_vars(Timeout)

----------------------------------------------------------------------------
\* attachOutput (dev-tui.ts:164-195): one buffer and one decoder per child,
\* fed by the 'data' events of the child's stdout and of its stderr. Text is
\* code units; what stdout writes and what stderr writes differ in their
\* letter, so that a line shows where its text came from. The chunks are taken
\* to hold whole characters, and all of them to arrive before `exited` settles.

NewLine == 10
StdoutChars == {111, NewLine}
StderrChars == {101, NewLine}
ChunksOf(chars) == UNION {[1..n -> chars] : n \in 1..MaxChunkLen}

\* buffer.indexOf('\n'), counted from 1; 0 when there is none
indexOf(buffer) ==
  IF \E i \in 1..Len(buffer) : buffer[i] = NewLine
  THEN CHOOSE i \in 1..Len(buffer) : buffer[i] = NewLine /\ \A j \in 1..(i - 1) : buffer[j] # NewLine
  ELSE 0

\* The while loop of writeChunk: onLine for every line the buffer holds.
RECURSIVE drain(_, _, _)
drain(label, buffer, lines) ==
  LET newlineIndex == indexOf(buffer) IN
  IF newlineIndex = 0 THEN [buffer |-> buffer, lines |-> lines]
  ELSE drain(label, SubSeq(buffer, newlineIndex + 1, Len(buffer)),
             Append(lines, Labelled(label, SubSeq(buffer, 1, newlineIndex - 1))))

\* writeChunk(chunk)
writeChunk(p, chunk) ==
  LET d == drain(p.label, p.buffer \o chunk, p.lines) IN
  [p EXCEPT !.buffer = d.buffer, !.lines = d.lines]

\* attachOutput(child, workspace.name, onLine) has returned.
InitPipe ==
  /\ NotSupervising
  /\ NotOrchestrating
  /\ unit = NoUnit
  /\ client = NoClient
  /\ pipe \in {[NoPipe EXCEPT !.label = n] : n \in Names}

\* child.stdout.on('data', (chunk) => writeChunk(chunk))
OnStdout(chunk) ==
  /\ pipe.label # ""
  /\ ~pipe.exited
  /\ Len(pipe.stdout) < MaxChunks
  /\ pipe' = [writeChunk(pipe, chunk) EXCEPT !.stdout = Append(pipe.stdout, chunk)]
  /\ UNCHANGED <<supervisor, orchestrator, unit, client>>

\* child.stderr.on('data', (chunk) => writeChunk(chunk))
OnStderr(chunk) ==
  /\ pipe.label # ""
  /\ ~pipe.exited
  /\ Len(pipe.stderr) < MaxChunks
  /\ pipe' = [writeChunk(pipe, chunk) EXCEPT !.stderr = Append(pipe.stderr, chunk)]
  /\ UNCHANGED <<supervisor, orchestrator, unit, client>>

\* child.exited.then: the rest of the buffer is a line; `exited` stands for the
\* `process exited` that is printed after it.
OnExited ==
  /\ pipe.label # ""
  /\ ~pipe.exited
  /\ pipe' = [pipe EXCEPT
       !.buffer = <<>>,
       !.lines = IF pipe.buffer # <<>> THEN Append(pipe.lines, Labelled(pipe.label, pipe.buffer))
                 ELSE pipe.lines,
       !.exited = TRUE]
  /\ UNCHANGED <<supervisor, orchestrator, unit, client>>

NextPipe ==
  \/ \E chunk \in ChunksOf(StdoutChars) : OnStdout(chunk)
  \/ \E chunk \in ChunksOf(StderrChars) : OnStderr(chunk)
  \/ OnExited

SpecPipe == InitPipe /\ [][NextPipe]_vars

----------------------------------------------------------------------------
\* discoverRunningServers (part_001:133-157) over one directory with one reply
\* per socket, run twice: the callbacks of Promise.all run in the order in
\* which the replies arrive, and each writes its entry with servers.set.

\* What a socket can answer to `info`: nothing, text that is no JSON, JSON
\* without a port, or the snapshot of a supervisor.
InfoReplies ==
  {NoReply, Expired, Garbage, NoPortJson} \cup
  {[kind |-> "json", via |-> "data", id |-> i, numeric |-> TRUE, port |-> q] : i \in Idents, q \in Ports}

\* The orders in which the replies of the sockets can arrive.
Orders == {o \in [1..Cardinality(Stems) -> Stems] : \A i, j \in DOMAIN o : o[i] = o[j] => i = j}

\* The map after the callbacks have run in this order.
RECURSIVE scanInOrder(_, _, _)
scanInOrder(order, replies, servers) ==
  IF order = <<>> THEN servers
  ELSE scanInOrder(Tail(order), replies, discoverEntry(servers, Head(order), replies[Head(order)]))

InitScanOrder ==
  /\ NotSupervising
  /\ NotOrchestrating
  /\ client = NoClient
  /\ pipe = NoPipe
  /\ unit \in {[fn |-> "discoverRunningServers", in |-> <<replies, a, b>>, out |-> <<>>] :
                 replies \in [Stems -> InfoReplies], a, b \in Orders}

\* Both scans return.
ScanTwice ==
  /\ unit.fn = "discoverRunningServers"
  /\ unit.out = <<>>
  /\ unit' = [unit EXCEPT !.out = <<scanInOrder(unit.in[2], unit.in[1], EmptyMap),
                                     scanInOrder(unit.in[3], unit.in[1], EmptyMap)>>]
  /\ UNCHANGED <<supervisor, orchestrator, client, pipe>>

NextScanOrder == ScanTwice

SpecScanOrder == InitScanOrder /\ [][NextScanOrder]_vars

----------------------------------------------------------------------------
\* Claims about the supervisor

\* The ports a process has bound and not stopped.
Live(p) == {q \in Ports : bound[q] = p}

\* The last callback turn ran a bind loop to its bind.
BindEvent == ev.op \in {"coldBind", "restarted"}

\* C1: a supervisor never holds two live RunningService handles at the same
\* time, whatever the interleaving of start, restart requests and stop.
C1_AtMostOneLive == \A p \in Procs : Cardinality(Live(p)) <= 1

\* C2: when the reply ok:<url> to `restart` is written, the port in <url> is
\* bound by the service that is live after the restart.
C2_RestartReplyIsLive ==
  ev.op = "restart" => bound[ev.port] = ev.p /\ server[ev.p].live

\* C3: a failure of a restart triggered on the control socket is answered with
\* error:<message> and does not end the supervisor.
C3_FailureAnswered ==
  (ev.op = "restartFailed" /\ ev.steps[1] = "control") =>
     /\ \E i \in DOMAIN ev.steps : ev.steps[i] = "write:error:"
     /\ pc[ev.p] # "exited"

\* C4: the first bind attempt of a restart, on its preferred port, never meets
\* a service of the supervisor itself.
C4_NoSelfCollision ==
  ev.op \in {"restarted", "restartFailed"} => ev.held # ev.p

\* C5: once a cold start that found a running peer of its own identity has
\* bound its service, no other process of that identity has a live listener:
\* the peer was asked to stop or restart instead.
C5_NoDuplicateIdentity ==
  (ev.op = "coldBind" /\ \E q \in Ports : ev.scan.servers[q].id = ident[ev.p]) =>
     \A q \in Procs \ {ev.p} : ident[q] = ident[ev.p] => Live(q) = {}

\* C6: on `stop` the reply ok is written before the service is stopped.
C6_OkBeforeStop ==
  ev.op = "stop" =>
     \E i, j \in DOMAIN ev.steps :
        i < j /\ ev.steps[i] = "write:ok" /\ ev.steps[j] = "stop"

\* C7: after stop has been accepted no service is bound by the supervisor, also
\* when a restart was in flight.
C7_StopIsTerminal == \A p \in Procs : stopped[p] => Live(p) = {}

\* C8 as stated: a start never ends bound on a port that its discovery map
\* lists for a peer of a different identity.
C8_NeverOnListedPort ==
  BindEvent => ev.scan.servers[ev.port].id \in {"", ident[ev.p]}

\* C8 as amended: a port listed for a peer of a different identity is tried
\* like any other and skipped only when the bind on it fails with address in
\* use: every port the start passed over was taken, no command was sent to a
\* peer of a different identity, and the port it binds it holds alone.
C8_SkipsOnlyTakenPorts ==
  /\ BindEvent =>
       /\ bound[ev.port] = ev.p
       /\ \A q \in ev.from..(ev.port - 1) : bound[q] # "free"
  /\ ev.op = "ask" => ev.scan.servers[ev.port].id = ident[ev.p]

\* A start passed over a port listed for a peer of a different identity.
C8_Witness ==
  /\ BindEvent
  /\ \E q \in ev.from..(ev.port - 1) : ev.scan.servers[q].id \notin {"", ident[ev.p]}

\* C9: the template's startServer binds the least port from its start port on
\* that is not in use: the start port itself when it is free, and otherwise
\* the first free one above, after trying every port from the start port up to
\* it once and in increasing order.
C9_LeastFreePort ==
  ev.op = "bind" =>
     /\ ev.port >= ev.from
     /\ bound[ev.port] = ev.p
     /\ \A q \in ev.from..(ev.port - 1) : bound[q] # "free"
     /\ ev.held = "free" => ev.port = ev.from
     /\ ev.steps = [i \in 1..(ev.port - ev.from + 1) |-> ev.from + i - 1]

\* startServer has bound a port above a start port that was in use.
C9_Witness == ev.op = "bind" /\ ev.port > ev.from

\* A reply to `info` that parses and whose port is the number q.
NumericReplies(scan, q) ==
  {r \in scan.raw : r.resp.kind = "json" /\ r.resp.numeric /\ r.resp.port = q}

\* C10: the map discoverRunningServers returns has an entry for port q exactly
\* when a socket of the directory answered `info` in this scan with a reply
\* that parses and whose port is the number q; the entry carries the id of such
\* a reply and the path of its socket; the map is empty when the directory
\* does not exist or holds no socket that answers so, whatever earlier scans
\* returned.
C10_DiscoverExact ==
  ev.op = "discovered" =>
     \A q \in Ports :
        /\ ev.scan.servers[q] # NoPeer <=> NumericReplies(ev.scan, q) # {}
        /\ ev.scan.servers[q] # NoPeer =>
             \E r \in NumericReplies(ev.scan, q) :
                ev.scan.servers[q] = [id |-> r.resp.id, socket |-> r.stem]

\* A scan has returned a map with an entry, after replies that were dropped.
C10_Witness ==
  /\ ev.op = "discovered"
  /\ \E q \in Ports : ev.scan.servers[q] # NoPeer
  /\ \E r \in ev.scan.raw : r.resp.kind = "garbage" \/ (r.resp.kind = "json" /\ ~r.resp.numeric)

\* The replies of a scan that carry no port: false, text that does not parse,
\* or JSON without a numeric port.
DroppedReplies(scan) ==
  {r \in scan.raw : r.resp.kind \in {"false", "garbage"} \/ ~r.resp.numeric}

\* C11: a scan always completes, whatever the sockets of the directory do: a
\* query is settled by a reply, by an error or by its own timer; a socket whose
\* query ended in false or in a reply that does not parse has no entry in the
\* map, and every sibling whose reply carries a numeric port has its entry.
C11_DiscoverCompletes ==
  /\ [](ev.op = "discovered" =>
          /\ \A r \in DroppedReplies(ev.scan) :
                \A q \in Ports : ev.scan.servers[q].socket # r.stem
          /\ \A r \in ev.scan.raw \ DroppedReplies(ev.scan) :
                ev.scan.servers[r.resp.port] # NoPeer)
  /\ [](pc["A"] = "discovering" => <>(pc["A"] = "scanned"))

\* A scan has returned after the timer of one query expired, with the entry of
\* a sibling that answered.
C11_Witness ==
  /\ ev.op = "discovered"
  /\ \E r \in ev.scan.raw : r.resp.via = "timer"
  /\ \E q \in Ports : ev.scan.servers[q] # NoPeer

\* C12: while a process is up with its control channel open, the file at its
\* socket path is the one it created: no other process has removed or rebound
\* the path, and no teardown has unlinked a file of another process.
C12_SocketOwned == \A p \in Procs : Accepting(p) => sock[ident[p]] = p

\* C13: when `stop` ends the process, the control listener has been closed and
\* the socket file unlinked first: the process leaves no socket file behind.
C13_NoFileLeftBehind ==
  (ev.op = "stop" /\ pc[ev.p] = "exited") => sock[ident[ev.p]] # "stale"

\* C14: the turn that handles an interrupt signal stops the service, as the
\* turn that handles `q` does, and the process then terminates.
C14_InterruptStops ==
  ev.op = "signal" => (~server[ev.p].live /\ pc[ev.p] \in {"closing", "exited"})

\* C16: every call of cleanup returns without throwing and leaves no file at
\* the socket path, also when a second call runs while the first is in flight.
C16_CleanupIdempotent ==
  ev.op = "cleaned" => (ev.steps[3] = "ok" /\ sock[ident[ev.p]] = "none")

\* A call of cleanup has returned whose rm found the file already removed by
\* the call that ran beside it.
C16_Witness == ev.op = "cleaned" /\ ev.held = "none" /\ ev.steps[2] = "rm"

C26_RestartAsksNobody ==
  ev.op \in {"restart", "restarted", "restartFailed", "restartAsk"} =>
    \A i \in 1..Len(ev.steps) : ev.steps[i] \notin {"send:stop", "send:restart"}

\* A restart has bound the port it had although its scan lists that port
\* under the supervisor's own identity and socket.
C26_Witness ==
  /\ ev.op = "restarted"
  /\ ev.port = ev.from
  /\ ev.scan.servers[ev.from].id = ident[ev.p]
  /\ ev.scan.servers[ev.from].socket = ident[ev.p]

\* C27: a completed restart has bound the least free port from the port the
\* supervisor had on, and that very port unless another process or a
\* listener outside the control plane held it when the restart came to bind.
C27_RestartKeepsPort ==
  ev.op = "restarted" =>
    /\ ev.port >= ev.from
    /\ \A q \in ev.from..(ev.port - 1) : bound[q] # "free"
    /\ ev.held \in {"free", ev.p} => ev.port = ev.from

\* C28: a bind error that is not address-in-use ends the allocation at the
\* port on which it occurred: that port is the last one tried, every port
\* tried before it was in use, and the process holds no bound service.
C28_FatalBindPropagates ==
  ev.op = "error" =>
    /\ ev.steps # <<>>
    /\ ev.steps[Len(ev.steps)] = ev.port
    /\ \A i \in 1..(Len(ev.steps) - 1) : bound[ev.steps[i]] # "free"
    /\ \A q \in Ports : bound[q] # ev.p
    /\ ~server[ev.p].live

\* The error came on the second port tried while a port above it was free.
C28_Witness ==
  /\ ev.op = "error"
  /\ Len(ev.steps) >= 2
  /\ \E q \in Ports : q > ev.port /\ bound[q] = "free"

\* C29: an allocation that finds every port from its start port to the
\* maximum in use has tried exactly those ports, each once and in order, none
\* above the maximum, and raises the error that names the start port; the
\* process holds no service.
C29_ExhaustionStopsAtMax ==
  ev.op = "exhausted" =>
    /\ ev.steps = [i \in 1..(MaxPort - ev.from + 1) |-> ev.from + i - 1]
    /\ \A i \in 1..Len(ev.steps) : ev.steps[i] <= MaxPort /\ bound[ev.steps[i]] # "free"
    /\ ev.port = MaxPort + 1
    /\ \A q \in Ports : bound[q] # ev.p
    /\ pc[ev.p] = "exited"

\* The allocation started below the maximum and ran through to it.
C29_Witness ==
  /\ ev.op = "exhausted"
  /\ ev.from < MaxPort
  /\ Len(ev.steps) >= 2
  /\ ev.steps[Len(ev.steps)] = MaxPort

\* A scan of some process has its `info` query to <stem>.sock under way.
Queried(stem) ==
  \E p \in Procs :
    \/ pc[p] = "discovering" /\ stem \in cold[p].scan.pending
    \/ pc[p] # "exited" /\ \E t \in TaskIds : tasks[p][t].st = "disc" /\ stem \in tasks[p][t].scan.pending

\* C32: the port a supervisor writes in its reply to `info` is a port it has
\* bound at the moment of the reply, also while a restart of it is in flight.
C32_InfoPortIsBound ==
  \A stem \in Stems :
    (sock[stem] \in Procs /\ Accepting(sock[stem]) /\ Queried(stem)) =>
      bound[infoReply(sock[stem]).port] = sock[stem]

\* C33: when a cold start has bound its service, no other process of its
\* identity has a live listener, whatever the scan of the cold start returned
\* and whatever the older process did with the command it was sent.
C33_ColdStartLeavesOneListener ==
  ev.op = "coldBind" =>
    \A q \in Procs \ {ev.p} : (ident[q] = ident[ev.p] /\ pc[q] # "exited") => Live(q) = {}

\* C34: a supervisor that is running, with no restart in flight and no stop
\* requested, holds in `server` a service that is live and bound, also after a
\* restart that failed.
C34_IdleHandleIsLive ==
  \A p \in Procs :
    (/\ pc[p] \in {"bound", "up"}
     /\ ~stopped[p]
     /\ \A t \in TaskIds : tasks[p][t].st = "idle") =>
       (server[p].live /\ bound[server[p].port] = p)

----------------------------------------------------------------------------
\* Claims about the orchestrator

\* A turn that handled a restart request: key r or control message restart.
RestartRequest ==
  \/ did.op = "key" /\ did.arg = "r"
  \/ did.op = "data" /\ did.arg = "restart"

\* C17: control-socket input other than restart, stop and info is answered
\* with error:unknown-command and changes nothing. For the supervisor the
\* reply is written and nothing else happens; for the orchestrator, whose
\* fourth command is open, input that is none of its commands must get the
\* same reply and must kill and spawn nothing.
C17_UnknownAnswered ==
  /\ ev.op = "unknown" => ev.steps = <<"write:error:unknown-command">>
  /\ (did.op = "data" /\ did.arg \notin {"restart", "stop", "info", "open"}) =>
       /\ did.reply = "error:unknown-command"
       /\ did.killed = {}
       /\ did.started = {}

\* C18: children of two generations of the same workspace are never alive
\* together, because restartAll awaits the exit of every tracked child before
\* it spawns.
C18_GenerationsDisjoint ==
  \A n \in Names : \A g, h \in Gens :
    (spawned[<<g, n>>] = "alive" /\ spawned[<<h, n>>] = "alive") => g = h

\* C19: a restart request that arrives while `restarting` is set kills no
\* child and spawns none, and at most one restartAll awaits its stopAll at any
\* time.
C19_SingleRestartInFlight ==
  /\ (RestartRequest /\ did.flag) => (did.killed = {} /\ did.started = {})
  /\ Restarts(Now) <= 1

\* A restart request has arrived while a restartAll awaited the exit of
\* the children it had killed.
C19_Witness ==
  /\ RestartRequest
  /\ did.flag
  /\ restarting
  /\ Restarts(Now) = 1
  /\ Awaited(Now) # {}

\* C20: while the orchestrator runs, every child it spawned that is still
\* alive is the handle the map holds for its workspace, and a turn in which
\* startAll ran leaves one entry per selected workspace.
C20_OneHandlePerWorkspace ==
  main = "running" =>
    /\ \A k \in Kids : spawned[k] = "alive" => children[k[2]] = k[1]
    /\ (did.op = "started" \/ did.started # {}) => \A n \in Selected : children[n] # 0

\* C21: a second invocation whose connect reached the first one's listener
\* has written `restart` and exited without opening a control socket and
\* without having spawned a child; one that found a socket file on which
\* nobody listens has gone on to open its own socket and spawn its children.
C21_SecondDefers ==
  /\ second.found = "connected" =>
       /\ second.pc = "exited"
       /\ second.wrote = "restart"
       /\ ~second.opened
       /\ second.started = 0
  /\ (second.found = "refused" /\ second.pc = "running") =>
       (second.opened /\ second.started >= 1 /\ second.wrote = "")

\* C35: when shutdown has run to its process.exit, every child that was ever
\* spawned has exited, also when the shutdown ran beside a restartAll that was
\* waiting for the old children.
C35_ExitLeavesNoChild ==
  main = "exited" => \A k \in Kids : spawned[k] # "alive"

\* C36: after `stop` on the control socket the orchestrator kills its
\* children and exits in the end, whether the client that sent `stop` closes
\* its connection or keeps it.
C36_StopEnds ==
  (did.op = "data" /\ did.arg = "stop") ~>
    (main = "exited" /\ \A n \in Names : children[n] = 0 \/ spawned[<<children[n], n>>] # "alive")

----------------------------------------------------------------------------
\* Claims about functions

Range(q) == {q[i] : i \in 1..Len(q)}

\* C22: two selections get the same control socket path exactly when they
\* are the same set of workspace directories, whatever their order.
C22_PathOfSet ==
  (unit.fn = "controlSocket" /\ unit.out # <<>>) =>
    ((Range(unit.in[1]) = Range(unit.in[2])) <=> (unit.out[1] = unit.out[2]))

----------------------------------------------------------------------------
\* Claims about the output of the children

\* The URL-shaped substrings of a line: a scheme followed by a run of
\* non-whitespace that ends at whitespace or at the end of the line.
UrlsOf(line) ==
  {m \in (1..Len(line)) \X (1..Len(line)) :
     /\ line[m[1]] = Scheme
     /\ m[1] < m[2]
     /\ \A i \in (m[1] + 1)..m[2] : line[i] # Space
     /\ m[2] = Len(line) \/ line[m[2] + 1] = Space}

FirstUrl(line) ==
  LET m == CHOOSE x \in UrlsOf(line) : \A y \in UrlsOf(line) : x[1] <= y[1]
  IN SubSeq(line, m[1], m[2])

OpenTurn == (did.op = "key" /\ did.arg = "o") \/ (did.op = "data" /\ did.arg = "open")

\* C23: a line of workspace n that holds a URL makes latestUrl[n] the first
\* URL of that line, any other line leaves the map as it was, and no line
\* touches another workspace's entry; `o` and `open` launch the latestUrl of
\* the first workspace in selection order that has one, and launch nothing
\* when none has.
C23_LatestUrlAndOpen ==
  /\ did.op = "line" =>
       /\ latestUrl[did.arg] = (IF UrlsOf(did.printed[1].text) # {}
                                THEN FirstUrl(did.printed[1].text) ELSE did.prior[did.arg])
       /\ \A n \in Names \ {did.arg} : latestUrl[n] = did.prior[n]
  /\ OpenTurn =>
       /\ latestUrl = did.prior
       /\ did.launched =
            (IF \A i \in 1..Len(workspaces) : latestUrl[workspaces[i]] = <<>> THEN <<>>
             ELSE IF latestUrl[workspaces[1]] # <<>> THEN latestUrl[workspaces[1]]
             ELSE latestUrl[workspaces[2]])

\* A line with text after its URL has replaced the older URL of its
\* workspace.
C23_Witness ==
  /\ did.op = "line"
  /\ did.prior[did.arg] # <<>>
  /\ UrlsOf(did.printed[1].text) # {}
  /\ Len(did.printed[1].text) > Len(latestUrl[did.arg])
  /\ latestUrl[did.arg] # did.prior[did.arg]

\* C25: the exit of a child on its own leaves the orchestrator running with
\* its control server, kills nothing and spawns nothing, leaves every other
\* child as it was, and is reported as one line `[name] process exited`.
C25_ExitLeavesSiblings ==
  did.op = "exited" =>
    /\ main = "running"
    /\ controlServer = "listening"
    /\ closing = 0
    /\ did.killed = {}
    /\ did.started = {}
    /\ \E k \in did.alive : /\ k[2] = did.arg
                            /\ {c \in Kids : spawned[c] = "alive"} = did.alive \ {k}
    /\ did.printed = <<Labelled(did.arg, <<"process exited">>)>>

\* A child has exited while the child of the other workspace runs on.
C25_Witness ==
  /\ did.op = "exited"
  /\ main = "running"
  /\ \E k \in Kids : spawned[k] = "alive" /\ k[2] # did.arg

\* A positive integer not exceeding 65535.
Accepted(value) == value.kind = "int" /\ value.n > 0 /\ value.n <= 65535

\* The base port the claim names, for an explicit port that counts as given
\* or not.
BasePortOf(given, in) ==
  IF given THEN in[1].n
  ELSE IF Accepted(in[2]) THEN in[2].n
  ELSE IF Accepted(in[3]) THEN 3000 + in[3].n
  ELSE 3000

C39_BasePortInRange ==
  (/\ unit.fn = "resolveBasePort"
   /\ unit.out # <<>>
   /\ \A i \in 1..3 : unit.in[i] = Unset \/ Accepted(unit.in[i])) =>
     (unit.out[1] >= 1 /\ unit.out[1] <= MAX_PORT)

----------------------------------------------------------------------------
\* Claims about sendControlCommand

\* The events that call resolve, in the order they happened.
Decisive == SelectSeq(client.seen, LAMBDA x : x.e \in {"data", "timeout", "error"})
TimedOut == \E i \in 1..Len(client.seen) : client.seen[i].e = "timeout"

C30_SettledAsFirstEvent ==
  /\ Len(unit.out) <= 1
  /\ (unit.out # <<>>) <=> (Decisive # <<>>)
  /\ client.timeout # "armed" => unit.out # <<>>
  /\ unit.out # <<>> =>
       unit.out[1] = IF Decisive[1].e = "data" THEN String(trim(Decisive[1].chunk)) ELSE False
  /\ \A i \in 1..Len(unit.out) :
       unit.out[i].string =>
         /\ unit.out[i].text = <<>> \/ {Head(unit.out[i].text), unit.out[i].text[Len(unit.out[i].text)]} \cap Whitespace = {}
  /\ TimedOut => client.state = "destroyed"

\* C30: a sendControlCommand settles exactly once: with the trimmed first
\* chunk when a chunk arrives before the timer fires and before an error, with
\* false when the error or the timer comes first; it settles in the end, and a
\* timer that has fired has destroyed the connection.
C30_SettlesOnce ==
  /\ [](unit.fn = "sendControlCommand" => C30_SettledAsFirstEvent)
  /\ (unit.fn = "sendControlCommand") ~> (unit.out # <<>>)

\* A chunk with blanks around its text settled the promise; a second chunk, an
\* error after it, or the end of the other side changed nothing.
C30_Witness ==
  /\ unit.fn = "sendControlCommand"
  /\ Len(Decisive) >= 2
  /\ Decisive[1].e = "data"
  /\ Decisive[1].chunk # trim(Decisive[1].chunk)
  /\ unit.out = <<String(trim(Decisive[1].chunk))>>

----------------------------------------------------------------------------
\* Claims about attachOutput

\* What a stream has written, and the lines of it: the text between its line
\* feeds, and what follows the last line feed when that is not empty.
RECURSIVE Written(_)
Written(chunks) == IF chunks = <<>> THEN <<>> ELSE Head(chunks) \o Written(Tail(chunks))
LinesOf(text) ==
  LET d == drain("", text, <<>>) IN
  [i \in 1..Len(d.lines) |-> d.lines[i].text] \o (IF d.buffer # <<>> THEN <<d.buffer>> ELSE <<>>)
ChildLines == pipe.lines
Holding(lines, chars) == SelectSeq(lines, LAMBDA l : Range(l) \cap (chars \ {NewLine}) # {})
Emitted == [i \in 1..Len(ChildLines) |-> ChildLines[i].text]

\* C31: every line of the child is printed once with the label of its
\* workspace, in the order of its stream, the partial last line at the exit;
\* no printed line holds text of stdout and text of stderr.
C31_LinesOfOneStream ==
  /\ \A i \in 1..Len(ChildLines) :
       /\ ChildLines[i].label = pipe.label
       /\ ~(/\ Range(ChildLines[i].text) \cap (StdoutChars \ {NewLine}) # {}
            /\ Range(ChildLines[i].text) \cap (StderrChars \ {NewLine}) # {})
  /\ pipe.exited =>
       /\ Holding(Emitted, StdoutChars) = Holding(LinesOf(Written(pipe.stdout)), StdoutChars)
       /\ Holding(Emitted, StderrChars) = Holding(LinesOf(Written(pipe.stderr)), StderrChars)
       /\ Len(Emitted) = Len(LinesOf(Written(pipe.stdout))) + Len(LinesOf(Written(pipe.stderr)))

\* C37: the URL the map holds for a workspace was printed by the child the
\* map tracks for that workspace, so that after a restartAll the key o and the
\* message `open` launch no URL of an earlier generation.
C37_UrlOfTrackedChild ==
  /\ \A n \in Names : (latestUrl[n] # <<>> /\ ~restarting) => urlFrom[n] = children[n]
  /\ (OpenTurn /\ did.launched # <<>> /\ ~restarting) =>
       \E n \in Names : latestUrl[n] = did.launched /\ urlFrom[n] = children[n]

----------------------------------------------------------------------------
\* Claims about discoverRunningServers

\* C38: two scans that get the same replies from the same sockets return the
\* same map, in whatever order the replies arrive, also when two sockets
\* report the same port.
C38_OrderIndependent ==
  (unit.fn = "discoverRunningServers" /\ unit.out # <<>>) => unit.out[1] = unit.out[2]

====
